---- MODULE Spec2Model ----
(***************************************************************************)
(* Model of the voicechat backend (src/python/backend/server.py and        *)
(* weather_tool.py): the connection router, the admission controller, the  *)
(* session registry, the reaper and the voice-mode duplex relay with its   *)
(* function-call interceptor.                                              *)
(*                                                                         *)
(* The server is a single asyncio event loop: code between two awaits runs *)
(* without interleaving, so every action below is the code from one        *)
(* suspension point to the next.                                           *)
(***************************************************************************)
EXTENDS Integers, Sequences, FiniteSets, TLC

VARIABLES
    now,               \* datetime.now(), in seconds
    ticks,             \* clock advances taken so far (bounds the run)
    sessions,          \* sessions: session_id -> session dict
    user_connections,  \* user_connections: user_id -> set of session ids
    user_requests,     \* user_requests: user_id -> list of timestamps
    pc,                \* per connection: where handle_client_connection is
    user_id,           \* per connection: local user_id
    session_id,        \* per connection: local session_id (None until created)
    closes,            \* per connection: the websocket.close(code, reason) calls made
    client_open,       \* per connection: the client websocket is open
    azure_state,       \* per connection: "none", "open", "draining" (closed by the
                       \*   peer, a received frame still to be read) or "closed"
    c2a,               \* per connection: where proxy_client_to_azure is
    a2c,               \* per connection: where proxy_azure_to_client is
    client_recv,       \* per connection: frames read from the client websocket
    azure_recv,        \* per connection: frames read from the Azure websocket
    handled,           \* per connection: try_handle_function_call's return values
    up_out,            \* per connection: frames sent on the Azure websocket
    client_out,        \* per connection: frames sent on the client websocket
    AZURE_ENDPOINT,    \* the configured endpoint, as read from the environment
    chat_calls         \* per connection: the calls of call_azure_chat_api_with_agent
                       \*   that returned, each with its message and return value

router_vars == <<pc, user_id, session_id, closes, client_open>>
registry_vars == <<sessions, user_connections>>
relay_vars == <<azure_state, c2a, a2c, client_recv, azure_recv, handled,
                up_out, client_out>>

config_vars == <<AZURE_ENDPOINT>>

vars == <<now, ticks, sessions, user_connections, user_requests,
          pc, user_id, session_id, closes, client_open, azure_state, c2a, a2c,
          client_recv, azure_recv, handled, up_out, client_out,
          AZURE_ENDPOINT, chat_calls>>

----------------------------------------------------------------------------
(* Program constants *)

MAX_CONNECTIONS_PER_USER == 3
MAX_REQUESTS_PER_MINUTE == 60
RATE_LIMIT_WINDOW == 60
CLEANUP_INTERVAL == 300
STALE_AGE == 3600
POLICY_VIOLATION == 1008
NORMAL_CLOSURE == 1000

(* Bounds of the model *)

NumConns == 4        \* connection attempts in Spec
MaxTicks == 2        \* clock advances in Spec
RateTicks == 3       \* clock advances in SpecRate
MaxFrames == 3       \* frames the two peers send in SpecRelay
AuthConns == 2       \* connection attempts in SpecAuth
OutcomeConns == 4    \* connection attempts in SpecOutcomes
MaxToolFrames == 2   \* frames Azure sends in SpecTool
RelayTicks == 1      \* clock advances in SpecRelay
LifeConns == 3       \* connection attempts in SpecLifecycle
MaxTextFrames == 2   \* frames the client sends in SpecText
TextTicks == 1       \* clock advances in SpecText
SecretConns == 2     \* connection attempts in SpecSecret
DenyConns == 5       \* connection attempts in SpecDenied
DenyTicks == 1       \* clock advances in SpecDenied
IsoConns == 2        \* voice sessions in SpecIsolation
IsoFrames == 4       \* frames received in SpecIsolation, all sessions together

None == 0            \* Python None for a session id

Tokens == {"alice", "bob"}
AnonNames == <<"anonymous-1", "anonymous-2", "anonymous-3", "anonymous-4",
               "anonymous-5", "anonymous-6", "anonymous-7", "anonymous-8">>

\* The Authorization headers a connection may carry ("" is no header).
Headers == {"", "Basic abc", "Bearer alice", "Bearer bob", "Bearer ", "Bearer   "}

\* The connection targets.
Paths == {"/", "/?mode=voice", "/?mode=text", "/?mode=video", "/?lang=en",
          "/?mode=TEXT", "/?mode="}

----------------------------------------------------------------------------
(* authenticate_user: the bearer token, stripped, or a fresh anonymous id.  *)
(* uuid4().hex[:8] is fresh per call: connection c gets the c-th name.      *)

BearerToken_default(header) ==
    CASE header = "Bearer alice" -> "alice"
      [] header = "Bearer bob"   -> "bob"
      [] OTHER                   -> "alice"

\* auth_header.replace('Bearer ', '').strip()
BearerToken(header) ==
    CASE header = "Bearer alice" -> "alice"
      [] header = "Bearer bob"   -> "bob"
      [] header = "Bearer "      -> ""
      [] header = "Bearer   "    -> ""
      [] OTHER                   -> ""

StartsWithBearer(header) ==
    header \in {"Bearer alice", "Bearer bob", "Bearer ", "Bearer   "}

authenticate_user_shared(header, c) ==
    IF StartsWithBearer(header)
    THEN BearerToken(header)
    ELSE AnonNames[1]

authenticate_user(header, c) ==
    IF StartsWithBearer(header)
    THEN BearerToken(header)
    ELSE AnonNames[((c - 1) % Len(AnonNames)) + 1]

\* The query parameter "mode" of the path, "voice" when there is none
\* (parse_qs leaves out a parameter with a blank value).
ModeParam(path) ==
    CASE path = "/?mode=voice" -> "voice"
      [] path = "/?mode=text"  -> "text"
      [] path = "/?mode=video" -> "video"
      [] path = "/?mode=TEXT"  -> "TEXT"
      [] OTHER                 -> "voice"

HasQuery(path) == path # "/"

ModeOf_raw(path) == ModeParam(path)

ModeOf(path) ==
    IF HasQuery(path) /\ ModeParam(path) \in {"voice", "text"}
    THEN ModeParam(path)
    ELSE "voice"

----------------------------------------------------------------------------
(* Session registry *)

NewSession_handle(u, m, c) ==
    [user_id |-> u, mode |-> m, created_at |-> now, azure_ws |-> c,
     client_ws |-> c, message_count |-> 0, agent_session |-> None]

NewSession(u, m, c) ==
    [user_id |-> u, mode |-> m, created_at |-> now, azure_ws |-> None,
     client_ws |-> c, message_count |-> 0, agent_session |-> None]

create_session_other(S, sid, u, m, c) ==
    [x \in DOMAIN S \cup {sid} |->
        IF x = sid THEN NewSession(IF u = "alice" THEN "bob" ELSE u, m, c) ELSE S[x]]

\* create_session followed by sessions[session_id]['client_ws'] = websocket
create_session(S, sid, u, m, c) ==
    [x \in DOMAIN S \cup {sid} |-> IF x = sid THEN NewSession(u, m, c) ELSE S[x]]

RegisterConnection_skip(UC, sid, u) == UC

\* user_connections[user_id].add(session_id)
RegisterConnection(UC, sid, u) ==
    [UC EXCEPT ![u] = @ \cup {sid}]

cleanup_session_nodiscard(reg, sid) ==
    IF sid \in DOMAIN reg.sessions
    THEN [sessions |-> [x \in DOMAIN reg.sessions \ {sid} |-> reg.sessions[x]],
          user_connections |-> reg.user_connections]
    ELSE reg

\* cleanup_session on the pair (sessions, user_connections)
cleanup_session(reg, sid) ==
    IF sid \in DOMAIN reg.sessions
    THEN [sessions |-> [x \in DOMAIN reg.sessions \ {sid} |-> reg.sessions[x]],
          user_connections |->
              [reg.user_connections
                 EXCEPT ![reg.sessions[sid].user_id] = @ \ {sid}]]
    ELSE reg

Registry == [sessions |-> sessions, user_connections |-> user_connections]

----------------------------------------------------------------------------
(* Admission controller: check_rate_limit *)

ConcurrentReason ==
    [fmt |-> "Maximum %d concurrent connections exceeded",
     n |-> MAX_CONNECTIONS_PER_USER]
RateReason ==
    [fmt |-> "Rate limit exceeded: %d requests per minute",
     n |-> MAX_REQUESTS_PER_MINUTE]
OkReason == [fmt |-> "OK", n |-> 0]
AuthReason == [fmt |-> "Authentication failed", n |-> 0]
NoReason == [fmt |-> "", n |-> 0]
InvalidModeReason == [fmt |-> "Invalid mode", n |-> 0]

ConnLimitHit_global(u) ==
    Cardinality(DOMAIN sessions) >= MAX_CONNECTIONS_PER_USER

ConnLimitHit_gt(u) ==
    Cardinality(user_connections[u]) > MAX_CONNECTIONS_PER_USER

ConnLimitHit(u) ==
    Cardinality(user_connections[u]) >= MAX_CONNECTIONS_PER_USER

InWindow_le(ts) == now - ts <= RATE_LIMIT_WINDOW

InWindow(ts) == now - ts < RATE_LIMIT_WINDOW

PrunedRequests_keep(u) == user_requests[u]

PrunedRequests(u) == SelectSeq(user_requests[u], InWindow)

RateLimitHit(u) == Len(PrunedRequests(u)) >= MAX_REQUESTS_PER_MINUTE

check_rate_limit_charge(u) ==
    IF ConnLimitHit(u)
    THEN [allowed |-> FALSE, reason |-> ConcurrentReason,
          requests |-> user_requests[u]]
    ELSE IF RateLimitHit(u)
    THEN [allowed |-> FALSE, reason |-> RateReason,
          requests |-> Append(PrunedRequests(u), now)]
    ELSE [allowed |-> TRUE, reason |-> OkReason,
          requests |-> Append(PrunedRequests(u), now)]

\* The result of check_rate_limit(u): (allowed, reason) and the new ledger.
check_rate_limit(u) ==
    IF ConnLimitHit(u)
    THEN [allowed |-> FALSE, reason |-> ConcurrentReason,
          requests |-> user_requests[u]]
    ELSE IF RateLimitHit(u)
    THEN [allowed |-> FALSE, reason |-> RateReason,
          requests |-> PrunedRequests(u)]
    ELSE [allowed |-> TRUE, reason |-> OkReason,
          requests |-> Append(PrunedRequests(u), now)]

----------------------------------------------------------------------------
(* Connection router: handle_client_connection *)

CloseCall(code, reason) == [code |-> code, reason |-> reason]

DenyClose_default(reason) == CloseCall(NORMAL_CLOSURE, NoReason)

\* websocket.close(1008, reason)
DenyClose(reason) == CloseCall(POLICY_VIOLATION, reason)

Finally_leak(c) ==
    /\ closes' = [closes EXCEPT ![c] = Append(@, CloseCall(NORMAL_CLOSURE, NoReason))]
    /\ pc' = [pc EXCEPT ![c] = "done"]
    /\ user_id' = [user_id EXCEPT ![c] = ""]
    /\ session_id' = [session_id EXCEPT ![c] = None]
    /\ client_open' = [client_open EXCEPT ![c] = FALSE]
    /\ UNCHANGED <<sessions, user_connections>>

\* The finally block: cleanup_session(session_id) if one was created, then
\* websocket.close(), which closes the connection unless it is closed
\* already; the coroutine's locals end with it.
Finally(c) ==
    LET reg == IF session_id[c] # None
               THEN cleanup_session(Registry, session_id[c])
               ELSE Registry
    IN /\ sessions' = reg.sessions
       /\ user_connections' = reg.user_connections
       /\ closes' = [closes EXCEPT ![c] = Append(@, CloseCall(NORMAL_CLOSURE, NoReason))]
       /\ pc' = [pc EXCEPT ![c] = "done"]
       /\ user_id' = [user_id EXCEPT ![c] = ""]
       /\ session_id' = [session_id EXCEPT ![c] = None]
       /\ client_open' = [client_open EXCEPT ![c] = FALSE]

\* From accept to the first await: mode, authentication, admission, session
\* creation and dispatch (to a handler, or to the close of an invalid mode).
Connect(c, header, path) ==
    /\ pc[c] = "new"
    /\ LET u == authenticate_user(header, c)
           m == ModeOf(path)
           r == check_rate_limit(u)
       IN IF u = ""
          THEN /\ closes' = [closes EXCEPT ![c] =
                                Append(@, DenyClose(AuthReason))]
               /\ pc' = [pc EXCEPT ![c] = "auth_close"]
               /\ client_open' = [client_open EXCEPT ![c] = FALSE]
               /\ UNCHANGED <<sessions, user_connections, user_requests,
                              user_id, session_id>>
          ELSE /\ user_id' = [user_id EXCEPT ![c] = u]
               /\ user_requests' = [user_requests EXCEPT ![u] = r.requests]
               /\ IF ~r.allowed
                  THEN /\ closes' = [closes EXCEPT ![c] =
                                Append(@, DenyClose(r.reason))]
                       /\ pc' = [pc EXCEPT ![c] = "deny_close"]
                       /\ client_open' = [client_open EXCEPT ![c] = FALSE]
                       /\ UNCHANGED <<sessions, user_connections, session_id>>
                  ELSE /\ sessions' = create_session(sessions, c, u, m, c)
                       /\ user_connections' = RegisterConnection(user_connections, c, u)
                       /\ session_id' = [session_id EXCEPT ![c] = c]
                       /\ IF m \in {"voice", "text"}
                          THEN /\ pc' = [pc EXCEPT ![c] = m]
                               /\ UNCHANGED <<closes, client_open>>
                          ELSE /\ closes' = [closes EXCEPT ![c] =
                                      Append(@, DenyClose(InvalidModeReason))]
                               /\ pc' = [pc EXCEPT ![c] = "mode_close"]
                               /\ client_open' = [client_open EXCEPT ![c] = FALSE]
    /\ UNCHANGED <<now, ticks, relay_vars, config_vars, chat_calls>>

\* await websocket.close(1008, ...) returns; return; finally.
DenyReturn(c) ==
    /\ pc[c] \in {"auth_close", "deny_close", "mode_close"}
    /\ Finally(c)
    /\ UNCHANGED <<now, ticks, user_requests, relay_vars, config_vars, chat_calls>>

\* await handle_voice_mode / handle_text_mode returns; finally.
HandlerReturn(c) ==
    /\ pc[c] \in {"voice", "text"}
    /\ Finally(c)
    /\ UNCHANGED <<now, ticks, user_requests, relay_vars, config_vars, chat_calls>>

----------------------------------------------------------------------------
(* Frames. A text frame is modelled by what json.loads makes of it: "invalid" *)
(* (not JSON), "array" (JSON, not an object) or an object with the fields the *)
(* server reads. A field holds a JSON value: absent, null, a string, a number *)
(* or a list.                                                                 *)

Absent == [t |-> "absent", v |-> ""]
Null == [t |-> "null", v |-> ""]
Str(x) == [t |-> "str", v |-> x]
Num(x) == [t |-> "num", v |-> x]
List(x) == [t |-> "list", v |-> x]

\* Python truth of data.get(key): None, "", 0 and [] are false.
Truthy(j) ==
    CASE j.t \in {"absent", "null"} -> FALSE
      [] j.t = "str"  -> j.v # ""
      [] j.t = "num"  -> j.v # "0"
      [] j.t = "list" -> j.v # "[]"

\* A list cannot be a dict key: name in AVAILABLE_TOOLS raises TypeError.
Hashable(j) == j.t # "list"

TextFrame(data) == [kind |-> "text", data |-> data]
BytesFrame(b) == [kind |-> "bytes", data |-> [t |-> "raw", v |-> b]]
NotJson(x) == TextFrame([t |-> "invalid", v |-> x])
JsonArray(x) == TextFrame([t |-> "array", v |-> x])
Event(type, call_id, name, arguments) ==
    TextFrame([t |-> "object", type |-> type, call_id |-> call_id,
               name |-> name, arguments |-> arguments])

FUNCTION_CALL_DONE == "response.function_call_arguments.done"

\* The frames injected by send_function_result.
ItemCreate(call_id, result) ==
    TextFrame([t |-> "object", type |-> Str("conversation.item.create"),
               item |-> [type |-> "function_call_output", call_id |-> call_id,
                         output |-> result]])
ResponseCreate == TextFrame([t |-> "object", type |-> Str("response.create")])

\* The error envelope sent to the client.
ErrorFrame(msg) == TextFrame([t |-> "object", type |-> Str("error"), error |-> msg])

----------------------------------------------------------------------------
(* Tool executor: weather_tool.py *)

WEATHER_DATA ==
    ("seattle" :> <<8, "Rainy", 85, 15>>) @@
    ("new york" :> <<12, "Partly Cloudy", 60, 20>>) @@
    ("los angeles" :> <<22, "Sunny", 40, 10>>) @@
    ("london" :> <<10, "Overcast", 75, 18>>) @@
    ("paris" :> <<14, "Cloudy", 65, 12>>) @@
    ("tokyo" :> <<16, "Clear", 55, 8>>) @@
    ("sydney" :> <<25, "Sunny", 50, 14>>) @@
    ("dubai" :> <<32, "Hot and Sunny", 30, 5>>) @@
    ("mumbai" :> <<28, "Humid", 80, 10>>) @@
    ("toronto" :> <<5, "Snowy", 70, 25>>) @@
    ("san francisco" :> <<15, "Foggy", 72, 16>>) @@
    ("chicago" :> <<7, "Windy", 55, 35>>) @@
    ("miami" :> <<27, "Sunny", 75, 12>>) @@
    ("denver" :> <<10, "Clear", 35, 8>>) @@
    ("boston" :> <<9, "Cloudy", 62, 18>>)

celsius_to_fahrenheit(celsius) == ((celsius * 9) \div 5) + 32

\* str.lower() on the city names used here.
Lower(city) ==
    CASE city = "Seattle" -> "seattle"
      [] city = "PARIS"   -> "paris"
      [] city = "Tokyo"   -> "tokyo"
      [] OTHER            -> city

\* The dictionary get_weather_for_city returns (its "description" repeats the
\* other fields in a sentence and is left out).
get_weather_for_city(city, unit) ==
    LET f == unit = Str("fahrenheit")
    IN IF Lower(city) \in DOMAIN WEATHER_DATA
       THEN LET w == WEATHER_DATA[Lower(city)]
            IN [city |-> city,
                temperature |-> IF f THEN celsius_to_fahrenheit(w[1]) ELSE w[1],
                unit |-> IF f THEN "F" ELSE "C",
                condition |-> w[2], humidity |-> w[3], wind |-> w[4]]
       ELSE [city |-> city, temperature |-> IF f THEN 68 ELSE 20,
             unit |-> IF f THEN "F" ELSE "C",
             condition |-> "Moderate", humidity |-> 50, wind |-> 10]

\* json.loads of the argument strings used here.
ParseArguments(text) ==
    CASE text = "{\"city\": \"Seattle\"}" ->
             [t |-> "object", city |-> Str("Seattle"), unit |-> Absent]
      [] text = "{\"city\": \"PARIS\", \"unit\": \"fahrenheit\"}" ->
             [t |-> "object", city |-> Str("PARIS"), unit |-> Str("fahrenheit")]
      [] text = "{\"city\": \"Atlantis\"}" ->
             [t |-> "object", city |-> Str("Atlantis"), unit |-> Absent]
      [] text = "{\"city\": null}" ->
             [t |-> "object", city |-> Null, unit |-> Absent]
      [] text = "{}" -> [t |-> "object", city |-> Absent, unit |-> Absent]
      [] text = "[]" -> [t |-> "array", city |-> Absent, unit |-> Absent]
      [] OTHER -> [t |-> "invalid", city |-> Absent, unit |-> Absent]

ToolError(prefix, detail) == [error |-> <<prefix, detail>>]

\* get_weather: every exception becomes an error payload.
get_weather(arguments) ==
    IF arguments.t # "str"
    THEN ToolError("Failed to get weather: ", "TypeError")
    ELSE LET args == ParseArguments(arguments.v)
             city == IF args.city.t = "absent" THEN Str("Unknown") ELSE args.city
             unit == IF args.unit.t = "absent" THEN Str("celsius") ELSE args.unit
         IN IF args.t = "invalid"
            THEN ToolError("Failed to get weather: ", "JSONDecodeError")
            ELSE IF args.t # "object" \/ city.t # "str"
            THEN ToolError("Failed to get weather: ", "AttributeError")
            ELSE get_weather_for_city(city.v, unit)

execute_tool_weather(name, arguments) ==
    [raised |-> ~Hashable(name), result |-> get_weather(arguments)]

\* execute_tool: the result, or the TypeError an unhashable name raises.
execute_tool(name, arguments) ==
    [raised |-> ~Hashable(name),
     result |-> IF name = Str("get_weather")
                THEN get_weather(arguments)
                ELSE ToolError("Unknown function: ", name.v)]

----------------------------------------------------------------------------
(* Frame interceptor: try_handle_function_call, send_function_result *)

IsFunctionCallDone(m) ==
    /\ m.kind = "text"
    /\ m.data.t = "object"
    /\ m.data.type = Str(FUNCTION_CALL_DONE)

\* data.get("arguments", "{}")
ArgumentsOf(m) ==
    IF m.data.arguments.t = "absent" THEN Str("{}") ELSE m.data.arguments

ToolResult(m) == execute_tool(m.data.name, ArgumentsOf(m))

ReachesSend_noid(m) ==
    /\ IsFunctionCallDone(m)
    /\ ~ToolResult(m).raised

\* The frame reaches send_function_result: it is a completed function call
\* with a call_id and a name, and execute_tool returned.
ReachesSend(m) ==
    /\ IsFunctionCallDone(m)
    /\ Truthy(m.data.call_id)
    /\ Truthy(m.data.name)
    /\ ~ToolResult(m).raised

\* An entry of up_out: the frame, who sent it ("client": the client loop,
\* "tool": the interceptor) and, for the interceptor, the index in azure_recv
\* of the frame that caused it.
Sent(by, i, frame) == [by |-> by, for |-> i, frame |-> frame]

AzureOpen(c) == azure_state[c] = "open"

Last(seq) == seq[Len(seq)]

----------------------------------------------------------------------------
(* Duplex relay: handle_voice_mode and the two proxy loops *)

other_vars == <<now, ticks, user_requests, config_vars, chat_calls>>

\* The server's configuration (.env); the key stands for any secret.
AZURE_API_KEY == "api-key-0123456789"
API_VERSION_REALTIME == "2024-10-01-preview"
AZURE_REALTIME_DEPLOYMENT == "gpt-realtime"

\* AZURE_ENDPOINT.replace('https://', 'wss://')
ws_endpoint ==
    [scheme |-> IF AZURE_ENDPOINT.scheme = "https://" THEN "wss://"
                ELSE AZURE_ENDPOINT.scheme,
     host |-> AZURE_ENDPOINT.host]

\* build_azure_realtime_url: the URL, as the sequence of its parts.
build_azure_realtime_url ==
    <<ws_endpoint.scheme, ws_endpoint.host, "/", "openai/realtime",
      "?api-version=", API_VERSION_REALTIME,
      "&deployment=", AZURE_REALTIME_DEPLOYMENT,
      "&api-key=", AZURE_API_KEY>>

\* websockets' parse_uri accepts the schemes ws and wss only.
ValidURI(url) == url[1] \in {"ws://", "wss://"}

\* websockets.connect succeeded: the handle is stored and both loops start.
\* A session the reaper removed meanwhile makes the store raise KeyError:
\* the upstream connection is left, an error frame is sent and the handler
\* returns.
VoiceConnected(c) ==
    /\ pc[c] = "voice"
    /\ azure_state[c] = "none"
    /\ ValidURI(build_azure_realtime_url)
    /\ IF session_id[c] \in DOMAIN sessions
       THEN /\ sessions' = [sessions EXCEPT ![session_id[c]].azure_ws = c]
            /\ azure_state' = [azure_state EXCEPT ![c] = "open"]
            /\ c2a' = [c2a EXCEPT ![c] = "recv"]
            /\ a2c' = [a2c EXCEPT ![c] = "recv"]
            /\ pc' = [pc EXCEPT ![c] = "relay"]
            /\ UNCHANGED <<user_connections, user_id, session_id, closes,
                           client_open, client_out>>
       ELSE /\ azure_state' = [azure_state EXCEPT ![c] = "closed"]
            /\ client_out' = [client_out EXCEPT ![c] =
                   IF client_open[c]
                   THEN Append(@, ErrorFrame(<<"Voice mode error: ", "KeyError">>))
                   ELSE @]
            /\ Finally(c)
            /\ UNCHANGED <<c2a, a2c>>
    /\ UNCHANGED <<other_vars, client_recv, azure_recv, handled, up_out>>

\* The exceptions websockets.connect raises for a well-formed URL, with
\* their str(e): the handshake is refused, or the network fails.
ConnectErrors ==
    {[class |-> "WebSocketException", prefix |-> "Failed to connect to Azure Realtime API: ",
      text |-> <<"server rejected WebSocket connection: HTTP 401">>],
     [class |-> "Exception", prefix |-> "Voice mode error: ",
      text |-> <<"Connect call failed">>]}

\* websockets.connect on a URL whose scheme is not ws or wss raises
\* InvalidURI, a WebSocketException whose str(e) begins with the URL.
InvalidURI(url) ==
    [class |-> "WebSocketException", prefix |-> "Failed to connect to Azure Realtime API: ",
     text |-> url \o <<" isn't a valid URI: scheme isn't ws or wss">>]

\* What websockets.connect(azure_url) can raise.
ConnectOutcomes ==
    IF ValidURI(build_azure_realtime_url)
    THEN ConnectErrors
    ELSE {InvalidURI(build_azure_realtime_url)}

VoiceConnectFailed_silent(c, e) ==
    /\ pc[c] = "voice"
    /\ azure_state[c] = "none"
    /\ e \in ConnectOutcomes
    /\ azure_state' = [azure_state EXCEPT ![c] = "closed"]
    /\ Finally(c)
    /\ UNCHANGED <<other_vars, c2a, a2c, client_recv, azure_recv, handled, up_out,
                   client_out>>

\* websockets.connect raised: one error frame, best effort, and return.
VoiceConnectFailed(c, e) ==
    /\ pc[c] = "voice"
    /\ azure_state[c] = "none"
    /\ e \in ConnectOutcomes
    /\ azure_state' = [azure_state EXCEPT ![c] = "closed"]
    /\ client_out' = [client_out EXCEPT ![c] =
           IF client_open[c] THEN Append(@, ErrorFrame(<<e.prefix>> \o e.text)) ELSE @]
    /\ Finally(c)
    /\ UNCHANGED <<other_vars, c2a, a2c, client_recv, azure_recv, handled, up_out>>

\* proxy_client_to_azure: a frame arrives from the client and is handed to
\* azure_ws.send, which raises ConnectionClosed on a closed connection.
ClientForward_shared(c, m) ==
    IF AzureOpen(c)
    THEN /\ up_out' = [up_out EXCEPT ![1] = Append(@, Sent("client", 0, m))]
         /\ c2a' = [c2a EXCEPT ![c] = "send"]
    ELSE /\ c2a' = [c2a EXCEPT ![c] = "done"]
         /\ UNCHANGED up_out

ClientForward(c, m) ==
    IF AzureOpen(c)
    THEN /\ up_out' = [up_out EXCEPT ![c] = Append(@, Sent("client", 0, m))]
         /\ c2a' = [c2a EXCEPT ![c] = "send"]
    ELSE /\ c2a' = [c2a EXCEPT ![c] = "done"]
         /\ UNCHANGED up_out

C2A_Recv(c, m) ==
    /\ pc[c] = "relay"
    /\ c2a[c] = "recv"
    /\ client_open[c]
    /\ Len(client_recv[c]) + Len(azure_recv[c]) < MaxFrames
    /\ client_recv' = [client_recv EXCEPT ![c] = Append(@, m)]
    /\ ClientForward(c, m)
    /\ UNCHANGED <<other_vars, registry_vars, router_vars, azure_state, a2c,
                   azure_recv, handled, client_out>>

C2A_Sent_all(c, ok) ==
    /\ c2a[c] = "send"
    /\ ok \/ ~AzureOpen(c)
    /\ LET present == session_id[c] \in DOMAIN sessions
       IN /\ c2a' = [c2a EXCEPT ![c] = IF ok /\ present THEN "recv" ELSE "done"]
          /\ sessions' = IF ok /\ present
                         THEN [sessions EXCEPT ![session_id[c]].message_count = @ + 1]
                         ELSE sessions
    /\ UNCHANGED <<other_vars, user_connections, router_vars, azure_state, a2c,
                   client_recv, azure_recv, handled, up_out, client_out>>

\* await azure_ws.send returns (ok), or raises because the connection closed
\* under it; after a text frame message_count is incremented, which raises
\* KeyError when the session is no longer registered.
C2A_Sent(c, ok) ==
    /\ c2a[c] = "send"
    /\ ok \/ ~AzureOpen(c)
    /\ LET counted == Last(client_recv[c]).kind = "text"
           present == session_id[c] \in DOMAIN sessions
       IN /\ c2a' = [c2a EXCEPT ![c] =
                 IF ok /\ (counted => present) THEN "recv" ELSE "done"]
          /\ sessions' = IF ok /\ counted /\ present
                         THEN [sessions EXCEPT ![session_id[c]].message_count = @ + 1]
                         ELSE sessions
    /\ UNCHANGED <<other_vars, user_connections, router_vars, azure_state, a2c,
                   client_recv, azure_recv, handled, up_out, client_out>>

\* The client connection is closed: async for ends.
C2A_End(c) ==
    /\ c2a[c] = "recv"
    /\ ~client_open[c]
    /\ c2a' = [c2a EXCEPT ![c] = "done"]
    /\ UNCHANGED <<other_vars, registry_vars, router_vars, azure_state, a2c,
                   client_recv, azure_recv, handled, up_out, client_out>>

\* await client_ws.send(message) in proxy_azure_to_client.
Forward_drop(c, m) ==
    /\ a2c' = [a2c EXCEPT ![c] = IF client_open[c] THEN "fwd" ELSE "done"]
    /\ client_out' = [client_out EXCEPT ![c] =
           IF client_open[c] /\ ~IsFunctionCallDone(m) THEN Append(@, m) ELSE @]

Forward(c, m) ==
    /\ a2c' = [a2c EXCEPT ![c] = IF client_open[c] THEN "fwd" ELSE "done"]
    /\ client_out' = [client_out EXCEPT ![c] =
           IF client_open[c] THEN Append(@, m) ELSE @]

\* send_function_result's first send.
SendItem_twice(c, m) ==
    LET item == Sent("tool", Len(azure_recv[c]) + 1,
                     ItemCreate(m.data.call_id, ToolResult(m).result))
    IN up_out' = [up_out EXCEPT ![c] = Append(Append(@, item), item)]

SendItem(c, m) ==
    up_out' = [up_out EXCEPT ![c] =
        Append(@, Sent("tool", Len(azure_recv[c]) + 1,
                       ItemCreate(m.data.call_id, ToolResult(m).result)))]

\* send_function_result's second send.
SendResponse_item(c) ==
    up_out' = [up_out EXCEPT ![c] = Append(@, Sent("tool", Len(azure_recv[c]), Last(@).frame))]

SendResponse_skip(c) == UNCHANGED up_out

SendResponse_front(c) ==
    up_out' = [up_out EXCEPT ![c] = <<Sent("tool", Len(azure_recv[c]), ResponseCreate)>> \o @]

SendResponse(c) ==
    up_out' = [up_out EXCEPT ![c] = Append(@, Sent("tool", Len(azure_recv[c]), ResponseCreate))]

\* proxy_azure_to_client: a frame arrives from Azure. A text frame goes through
\* try_handle_function_call: a function call is executed and its first frame
\* sent; anything else, and a call whose handling raised, is forwarded.
A2C_Recv(c, m) ==
    /\ pc[c] = "relay"
    /\ a2c[c] = "recv"
    /\ \/ azure_state[c] = "draining"
       \/ AzureOpen(c) /\ Len(client_recv[c]) + Len(azure_recv[c]) < MaxFrames
    /\ azure_recv' = [azure_recv EXCEPT ![c] = Append(@, m)]
    /\ azure_state' = [azure_state EXCEPT ![c] = IF @ = "draining" THEN "closed" ELSE @]
    /\ IF ReachesSend(m) /\ AzureOpen(c)
       THEN /\ SendItem(c, m)
            /\ a2c' = [a2c EXCEPT ![c] = "item"]
            /\ UNCHANGED client_out
       ELSE /\ Forward(c, m)
            /\ UNCHANGED up_out
    /\ UNCHANGED <<other_vars, registry_vars, router_vars, c2a, client_recv, handled>>

\* The first send returned: the second is made, or raises and the frame is
\* forwarded as not handled.
A2C_ItemSent(c) ==
    /\ a2c[c] = "item"
    /\ IF AzureOpen(c)
       THEN /\ SendResponse(c)
            /\ a2c' = [a2c EXCEPT ![c] = "resp"]
            /\ UNCHANGED client_out
       ELSE /\ Forward(c, Last(azure_recv[c]))
            /\ UNCHANGED up_out
    /\ UNCHANGED <<other_vars, registry_vars, router_vars, azure_state, c2a,
                   client_recv, azure_recv, handled>>

A2C_RespSent_stop(c, ok) ==
    /\ a2c[c] = "resp"
    /\ ok \/ ~AzureOpen(c)
    /\ handled' = [handled EXCEPT ![c] = IF ok THEN @ \cup {Len(azure_recv[c])} ELSE @]
    /\ IF "error" \in DOMAIN ToolResult(Last(azure_recv[c])).result
       THEN a2c' = [a2c EXCEPT ![c] = "done"] /\ UNCHANGED client_out
       ELSE Forward(c, Last(azure_recv[c]))
    /\ UNCHANGED <<other_vars, registry_vars, router_vars, azure_state, c2a,
                   client_recv, azure_recv, up_out>>

\* The second send returned (ok: try_handle_function_call returns True) or
\* raised because the connection closed under it (it returns False); the
\* frame is forwarded to the client either way.
A2C_RespSent(c, ok) ==
    /\ a2c[c] = "resp"
    /\ ok \/ ~AzureOpen(c)
    /\ handled' = [handled EXCEPT ![c] = IF ok THEN @ \cup {Len(azure_recv[c])} ELSE @]
    /\ Forward(c, Last(azure_recv[c]))
    /\ UNCHANGED <<other_vars, registry_vars, router_vars, azure_state, c2a,
                   client_recv, azure_recv, up_out>>

\* await client_ws.send returned: the loop waits for the next frame.
A2C_Forwarded(c) ==
    /\ a2c[c] = "fwd"
    /\ a2c' = [a2c EXCEPT ![c] = "recv"]
    /\ UNCHANGED <<other_vars, registry_vars, router_vars, azure_state, c2a,
                   client_recv, azure_recv, handled, up_out, client_out>>

\* The Azure connection is closed and nothing is left to read: async for ends.
A2C_End(c) ==
    /\ a2c[c] = "recv"
    /\ azure_state[c] = "closed"
    /\ a2c' = [a2c EXCEPT ![c] = "done"]
    /\ UNCHANGED <<other_vars, registry_vars, router_vars, azure_state, c2a,
                   client_recv, azure_recv, handled, up_out, client_out>>

VoiceReturn_first(c) ==
    /\ pc[c] = "relay"
    /\ c2a[c] = "done" \/ a2c[c] = "done"
    /\ azure_state' = [azure_state EXCEPT ![c] = "closed"]
    /\ Finally(c)
    /\ UNCHANGED <<other_vars, c2a, a2c, client_recv, azure_recv, handled,
                   up_out, client_out>>

\* asyncio.gather returns once both loops have returned; the async with block
\* closes the Azure connection; the router's finally block runs.
VoiceReturn(c) ==
    /\ pc[c] = "relay"
    /\ c2a[c] = "done"
    /\ a2c[c] = "done"
    /\ azure_state' = [azure_state EXCEPT ![c] = "closed"]
    /\ Finally(c)
    /\ UNCHANGED <<other_vars, c2a, a2c, client_recv, azure_recv, handled,
                   up_out, client_out>>

\* The peers: the client goes away; Azure closes, with or without a frame
\* already received and not yet read.
ClientClose(c) ==
    /\ pc[c] \in {"voice", "relay", "text", "text_session", "text_recv", "text_call"}
    /\ client_open[c]
    /\ client_open' = [client_open EXCEPT ![c] = FALSE]
    /\ UNCHANGED <<other_vars, registry_vars, pc, user_id, session_id, closes,
                   relay_vars>>

AzureClose(c, unread) ==
    /\ azure_state[c] = "open"
    /\ unread => a2c[c] # "done" /\ Len(client_recv[c]) + Len(azure_recv[c]) < MaxFrames
    /\ azure_state' = [azure_state EXCEPT ![c] = IF unread THEN "draining" ELSE "closed"]
    /\ UNCHANGED <<other_vars, registry_vars, router_vars, c2a, a2c, client_recv,
                   azure_recv, handled, up_out, client_out>>

----------------------------------------------------------------------------
(* Text mode: handle_text_mode *)

\* A client frame of text mode, with the fields handle_text_mode reads.
TextMessage(type, content, text) ==
    TextFrame([t |-> "object", type |-> type, content |-> content, text |-> text])

SessionCreated(sid) ==
    TextFrame([t |-> "object", type |-> Str("session.created"), session_id |-> sid])

TextResponse(response) ==
    TextFrame([t |-> "object", type |-> Str("text_response"), content |-> response])

NotConfigured ==
    <<"Azure OpenAI is not configured. Check AZURE_ENDPOINT and AZURE_API_KEY environment variables.">>

\* str(e) of the exceptions the message handling raises.
NoGetAttribute == <<"'list' object has no attribute 'get'">>
NotSubscriptable == <<"'int' object is not subscriptable">>
MissingSession == <<"'session_id'">>

\* data.get('content', '') or data.get('text', '')
user_message(m) ==
    LET content == IF m.data.content.t = "absent" THEN Str("") ELSE m.data.content
        text == IF m.data.text.t = "absent" THEN Str("") ELSE m.data.text
    IN IF Truthy(content) THEN content ELSE text

TextDispatch_lax(m) ==
    CASE m.kind = "bytes"      -> [do |-> "skip", error |-> << >>]
      [] m.data.t = "invalid"  -> [do |-> "skip", error |-> << >>]
      [] m.data.t = "array"    -> [do |-> "error", error |-> NoGetAttribute]
      [] OTHER ->
           IF m.data.type \notin {Str("text_message"), Str("text.message")}
           THEN [do |-> "skip", error |-> << >>]
           ELSE IF ~Truthy(user_message(m))
           THEN [do |-> "skip", error |-> << >>]
           ELSE IF user_message(m).t = "num"
           THEN [do |-> "error", error |-> NotSubscriptable]
           ELSE [do |-> "call", error |-> << >>]

\* What the loop body does with a frame: "skip" (a binary frame, an unknown
\* type, an empty message), "call" the chat agent, or send an error frame
\* for a JSONDecodeError ("invalid") or for another exception ("error").
TextDispatch(m) ==
    CASE m.kind = "bytes"      -> [do |-> "skip", error |-> << >>]
      [] m.data.t = "invalid"  -> [do |-> "invalid", error |-> <<"Invalid message format">>]
      [] m.data.t = "array"    -> [do |-> "error", error |-> NoGetAttribute]
      [] OTHER ->
           IF m.data.type \notin {Str("text_message"), Str("text.message")}
           THEN [do |-> "skip", error |-> << >>]
           ELSE IF ~Truthy(user_message(m))
           THEN [do |-> "skip", error |-> << >>]
           ELSE IF user_message(m).t = "num"
           THEN [do |-> "error", error |-> NotSubscriptable]
           ELSE [do |-> "call", error |-> << >>]

\* await get_chat_agent() returns the agent, or None: an error frame is
\* sent (best effort) and the handler returns.
TextAgent(c, agent) ==
    /\ pc[c] = "text"
    /\ IF agent
       THEN /\ pc' = [pc EXCEPT ![c] = "text_session"]
            /\ UNCHANGED <<registry_vars, user_id, session_id, closes, client_open,
                           client_out>>
       ELSE /\ client_out' = [client_out EXCEPT ![c] =
                   IF client_open[c] THEN Append(@, ErrorFrame(NotConfigured)) ELSE @]
            /\ Finally(c)
    /\ UNCHANGED <<other_vars, azure_state, c2a, a2c, client_recv, azure_recv,
                   handled, up_out>>

\* await agent.create_session() returns (ok) or raises; the agent session is
\* stored in the registry entry, which raises KeyError when the entry is
\* gone; session.created is sent, which raises ConnectionClosed on a closed
\* connection. Every exception ends the handler.
TextSession(c, ok) ==
    /\ pc[c] = "text_session"
    /\ IF ok /\ session_id[c] \in DOMAIN sessions /\ client_open[c]
       THEN /\ sessions' = [sessions EXCEPT ![session_id[c]].agent_session = c]
            /\ client_out' = [client_out EXCEPT ![c] =
                                  Append(@, SessionCreated(session_id[c]))]
            /\ pc' = [pc EXCEPT ![c] = "text_recv"]
            /\ UNCHANGED <<user_connections, user_id, session_id, closes, client_open>>
       ELSE /\ Finally(c)
            /\ UNCHANGED client_out
    /\ UNCHANGED <<other_vars, azure_state, c2a, a2c, client_recv, azure_recv,
                   handled, up_out>>

\* async for message in websocket: one frame from the client, up to the next
\* await that does not return at once.
TextRecv(c, m) ==
    /\ pc[c] = "text_recv"
    /\ client_open[c]
    /\ Len(client_recv[c]) < MaxTextFrames
    /\ client_recv' = [client_recv EXCEPT ![c] = Append(@, m)]
    /\ LET d == TextDispatch(m)
       IN /\ pc' = [pc EXCEPT ![c] = IF d.do = "call" THEN "text_call" ELSE @]
          /\ client_out' = [client_out EXCEPT ![c] =
                 IF d.do \in {"invalid", "error"}
                 THEN Append(@, ErrorFrame(d.error)) ELSE @]
    /\ UNCHANGED <<other_vars, registry_vars, user_id, session_id, closes, client_open,
                   azure_state, c2a, a2c, azure_recv, handled, up_out>>

TextReply_silent(c, response) ==
    /\ pc[c] = "text_call"
    /\ chat_calls' = [chat_calls EXCEPT ![c] =
           Append(@, [message |-> user_message(Last(client_recv[c])),
                      response |-> response])]
    /\ IF client_open[c]
       THEN /\ UNCHANGED client_out
            /\ sessions' = IF session_id[c] \in DOMAIN sessions
                           THEN [sessions EXCEPT ![session_id[c]].message_count = @ + 1]
                           ELSE sessions
            /\ pc' = [pc EXCEPT ![c] = "text_recv"]
            /\ UNCHANGED <<user_connections, user_id, session_id, closes, client_open>>
       ELSE /\ Finally(c)
            /\ UNCHANGED client_out
    /\ UNCHANGED <<now, ticks, user_requests, config_vars, azure_state, c2a, a2c,
                   client_recv, azure_recv, handled, up_out>>

\* await call_azure_chat_api_with_agent returns: the text_response is sent
\* and message_count incremented; a KeyError of the increment is answered with
\* an error frame and the loop goes on. On a closed connection the send
\* raises ConnectionClosed, as does the send of the error frame for it, and
\* the handler returns.
TextReply(c, response) ==
    /\ pc[c] = "text_call"
    /\ chat_calls' = [chat_calls EXCEPT ![c] =
           Append(@, [message |-> user_message(Last(client_recv[c])),
                      response |-> response])]
    /\ IF client_open[c]
       THEN /\ client_out' = [client_out EXCEPT ![c] =
                   IF session_id[c] \in DOMAIN sessions
                   THEN Append(@, TextResponse(response))
                   ELSE Append(Append(@, TextResponse(response)),
                               ErrorFrame(MissingSession))]
            /\ sessions' = IF session_id[c] \in DOMAIN sessions
                           THEN [sessions EXCEPT ![session_id[c]].message_count = @ + 1]
                           ELSE sessions
            /\ pc' = [pc EXCEPT ![c] = "text_recv"]
            /\ UNCHANGED <<user_connections, user_id, session_id, closes, client_open>>
       ELSE /\ Finally(c)
            /\ UNCHANGED client_out
    /\ UNCHANGED <<now, ticks, user_requests, config_vars, azure_state, c2a, a2c,
                   client_recv, azure_recv, handled, up_out>>

\* The client connection is closed: async for ends and the handler returns.
TextEnd(c) ==
    /\ pc[c] = "text_recv"
    /\ ~client_open[c]
    /\ Finally(c)
    /\ UNCHANGED <<other_vars, relay_vars>>

----------------------------------------------------------------------------
(* Session reaper: periodic_cleanup *)

StaleSessions_ge ==
    {sid \in DOMAIN sessions : now - sessions[sid].created_at >= STALE_AGE}

StaleSessions == {sid \in DOMAIN sessions : now - sessions[sid].created_at > STALE_AGE}

RECURSIVE cleanup_all(_, _)
cleanup_all(reg, sids) ==
    IF sids = {} THEN reg
    ELSE LET sid == CHOOSE x \in sids : TRUE
         IN cleanup_all(cleanup_session(reg, sid), sids \ {sid})

ReaperSweep ==
    /\ now >= CLEANUP_INTERVAL
    /\ LET reg == cleanup_all(Registry, StaleSessions)
       IN /\ sessions' = reg.sessions
          /\ user_connections' = reg.user_connections
    /\ UNCHANGED <<now, ticks, user_requests, router_vars, relay_vars,
                   config_vars, chat_calls>>

----------------------------------------------------------------------------
(* The clock *)

Tick(d, maxTicks) ==
    /\ ticks < maxTicks
    /\ now' = now + d
    /\ ticks' = ticks + 1
    /\ UNCHANGED <<registry_vars, user_requests, router_vars, relay_vars,
                   config_vars, chat_calls>>

----------------------------------------------------------------------------
(* Specifications *)

Identities == Tokens \cup {AnonNames[i] : i \in DOMAIN AnonNames}

DefaultEndpoint == [scheme |-> "https://", host |-> "contoso.openai.azure.com"]

\* The state of a server started with the given endpoint, n clients about
\* to connect, and the given windows of request times.
InitFrom(n, endpoint, requests) ==
    /\ now = 0
    /\ ticks = 0
    /\ sessions = << >>
    /\ user_connections = [u \in Identities |-> {}]
    /\ user_requests = requests
    /\ pc = [c \in 1..n |-> "new"]
    /\ user_id = [c \in 1..n |-> ""]
    /\ session_id = [c \in 1..n |-> None]
    /\ closes = [c \in 1..n |-> << >>]
    /\ client_open = [c \in 1..n |-> TRUE]
    /\ azure_state = [c \in 1..n |-> "none"]
    /\ c2a = [c \in 1..n |-> "idle"]
    /\ a2c = [c \in 1..n |-> "idle"]
    /\ client_recv = [c \in 1..n |-> << >>]
    /\ azure_recv = [c \in 1..n |-> << >>]
    /\ handled = [c \in 1..n |-> {}]
    /\ up_out = [c \in 1..n |-> << >>]
    /\ client_out = [c \in 1..n |-> << >>]
    /\ AZURE_ENDPOINT = endpoint
    /\ chat_calls = [c \in 1..n |-> << >>]

InitWith(n, endpoint) == InitFrom(n, endpoint, [u \in Identities |-> << >>])

InitFor(n) == InitWith(n, DefaultEndpoint)

Conns == DOMAIN pc

\* Connections are accepted in the order of their numbers.
Accepting(c) == \A d \in Conns : d < c => pc[d] # "new"

\* Spec: several clients connecting concurrently.
Init == InitFor(NumConns)

Next ==
    \/ \E c \in Conns, h \in {"", "Bearer alice"},
          p \in {"/"} :
          Accepting(c) /\ Connect(c, h, p)
    \/ \E c \in Conns : DenyReturn(c)
    \/ \E c \in Conns : HandlerReturn(c)
    \/ ReaperSweep
    \/ \E d \in {RATE_LIMIT_WINDOW, STALE_AGE} : Tick(d, MaxTicks)

Spec == Init /\ [][Next]_vars

\* SpecRate: one client reconnecting serially, to fill the rate window. The
\* server keeps nothing of a connection whose handler has returned, so the
\* next connection takes its place in the model.
InitRate == InitFor(1)

Accept(c) ==
    /\ pc[c] = "done"
    /\ pc' = [pc EXCEPT ![c] = "new"]
    /\ closes' = [closes EXCEPT ![c] = << >>]
    /\ client_open' = [client_open EXCEPT ![c] = TRUE]
    /\ UNCHANGED <<now, ticks, registry_vars, user_requests, user_id,
                   session_id, relay_vars, config_vars, chat_calls>>

NextRate ==
    \/ \E c \in Conns : Connect(c, "Bearer alice", "/")
    \/ \E c \in Conns : DenyReturn(c)
    \/ \E c \in Conns : HandlerReturn(c)
    \/ \E c \in Conns : Accept(c)
    \/ Tick(RATE_LIMIT_WINDOW \div 2, RateTicks)

SpecRate == InitRate /\ [][NextRate]_vars

\* SpecDenied: clients connecting, with and without a token, to a server
\* where alice is a few requests short of her rate limit: her earlier
\* connections, all made at time 0, have come and gone. Both kinds of denial
\* happen.
Backlog == MAX_REQUESTS_PER_MINUTE - MAX_CONNECTIONS_PER_USER

InitDenied ==
    InitFrom(DenyConns, DefaultEndpoint,
             [u \in Identities |-> IF u = "alice" THEN [i \in 1..Backlog |-> 0] ELSE << >>])

NextDenied ==
    \/ \E c \in Conns, h \in {"", "Bearer alice"} : Accepting(c) /\ Connect(c, h, "/")
    \/ \E c \in Conns : DenyReturn(c)
    \/ \E c \in Conns : HandlerReturn(c)
    \/ Tick(RATE_LIMIT_WINDOW, DenyTicks)

SpecDenied == InitDenied /\ [][NextDenied]_vars

\* SpecAuth: clients connecting with every kind of Authorization header and
\* target.
InitAuth == InitFor(AuthConns)

NextAuth ==
    \/ \E c \in Conns, h \in Headers, p \in Paths : Accepting(c) /\ Connect(c, h, p)
    \/ \E c \in Conns : DenyReturn(c)
    \/ \E c \in Conns : HandlerReturn(c)

SpecAuth == InitAuth /\ [][NextAuth]_vars

\* SpecOutcomes: every way a connection of one user ends, for voice sessions
\* that carry no frames.
InitOutcomes == InitFor(OutcomeConns)

NextOutcomes ==
    \/ \E c \in Conns, h \in {"Bearer alice", "Bearer "} :
          Accepting(c) /\ Connect(c, h, "/")
    \/ \E c \in Conns : DenyReturn(c)
    \/ \E c \in Conns : VoiceConnected(c)
    \/ \E c \in Conns, e \in ConnectErrors : VoiceConnectFailed(c, e)
    \/ \E c \in Conns : C2A_End(c)
    \/ \E c \in Conns : A2C_End(c)
    \/ \E c \in Conns : VoiceReturn(c)
    \/ \E c \in Conns : ClientClose(c)
    \/ \E c \in Conns : AzureClose(c, FALSE)

SpecOutcomes == InitOutcomes /\ [][NextOutcomes]_vars

\* SpecRelay: one voice session, from its connection to the end of its
\* handler, with the frames of both peers.
ClientFrames ==
    {TextFrame([t |-> "object", type |-> Str("input_audio_buffer.commit")]),
     BytesFrame("pcm-1")}

GetWeatherCall ==
    Event(Str(FUNCTION_CALL_DONE), Str("call_1"), Str("get_weather"),
          Str("{\"city\": \"Seattle\"}"))

AzureFrames ==
    {BytesFrame("pcm-2"),
     Event(Str("response.audio.delta"), Absent, Absent, Absent),
     GetWeatherCall,
     Event(Str(FUNCTION_CALL_DONE), Str("call_2"), List("[\"get_weather\"]"), Absent)}

InitRelay == InitFor(1)

NextRelay ==
    \/ \E c \in Conns : Connect(c, "Bearer alice", "/")
    \/ \E c \in Conns : VoiceConnected(c)
    \/ \E c \in Conns, e \in ConnectErrors : VoiceConnectFailed(c, e)
    \/ \E c \in Conns, m \in ClientFrames : C2A_Recv(c, m)
    \/ \E c \in Conns, ok \in BOOLEAN : C2A_Sent(c, ok)
    \/ \E c \in Conns : C2A_End(c)
    \/ \E c \in Conns, m \in AzureFrames : A2C_Recv(c, m)
    \/ \E c \in Conns : A2C_ItemSent(c)
    \/ \E c \in Conns, ok \in BOOLEAN : A2C_RespSent(c, ok)
    \/ \E c \in Conns : A2C_Forwarded(c)
    \/ \E c \in Conns : A2C_End(c)
    \/ \E c \in Conns : VoiceReturn(c)
    \/ \E c \in Conns : ClientClose(c)
    \/ \E c \in Conns, unread \in BOOLEAN : AzureClose(c, unread)
    \/ ReaperSweep
    \/ Tick(STALE_AGE + CLEANUP_INTERVAL, RelayTicks)

SpecRelay == InitRelay /\ [][NextRelay]_vars

\* SpecIsolation: several voice sessions of one user running side by side.
\* The frames of each session's client (text frames, which are counted) and
\* of its Azure connection (audio and function calls) are its own: they
\* carry the session's event id, payload, call id and city.
Payloads == <<"pcm-a", "pcm-b", "pcm-c">>
EventIds == <<"event_a", "event_b", "event_c">>
CallIds == <<"call_a", "call_b", "call_c">>
CityArguments ==
    <<"{\"city\": \"Seattle\"}",
      "{\"city\": \"PARIS\", \"unit\": \"fahrenheit\"}",
      "{\"city\": \"Atlantis\"}">>

IsoClientFrames(c) ==
    {TextFrame([t |-> "object", type |-> Str("input_audio_buffer.commit"),
                event_id |-> Str(EventIds[c])])}

IsoAzureFrames(c) ==
    {BytesFrame(Payloads[c]),
     Event(Str(FUNCTION_CALL_DONE), Str(CallIds[c]), Str("get_weather"),
           Str(CityArguments[c]))}

RECURSIVE FramesReceived(_)
FramesReceived(n) ==
    IF n = 0 THEN 0
    ELSE Len(client_recv[n]) + Len(azure_recv[n]) + FramesReceived(n - 1)

InitIsolation == InitFor(IsoConns)

NextIsolation ==
    \/ \E c \in Conns : Accepting(c) /\ Connect(c, "Bearer alice", "/")
    \/ \E c \in Conns : VoiceConnected(c)
    \/ \E c \in Conns : \E m \in IsoClientFrames(c) :
          FramesReceived(IsoConns) < IsoFrames /\ C2A_Recv(c, m)
    \/ \E c \in Conns : C2A_Sent(c, TRUE)
    \/ \E c \in Conns : \E m \in IsoAzureFrames(c) :
          FramesReceived(IsoConns) < IsoFrames /\ A2C_Recv(c, m)
    \/ \E c \in Conns : A2C_ItemSent(c)
    \/ \E c \in Conns : A2C_RespSent(c, TRUE)
    \/ \E c \in Conns : A2C_Forwarded(c)

SpecIsolation == InitIsolation /\ [][NextIsolation]_vars

\* SpecTool: one voice session whose client is silent, with every kind of
\* frame from Azure: binary, not JSON, JSON but not an object, other events,
\* and function calls with and without call_id and name, for known and
\* unknown tools, with well-formed and ill-formed arguments.
ToolCalls ==
    {GetWeatherCall,
     Event(Str(FUNCTION_CALL_DONE), Str("call_2"), List("[\"get_weather\"]"), Absent),
     Event(Str(FUNCTION_CALL_DONE), Str("call_3"), Str("get_time"), Str("{}")),
     Event(Str(FUNCTION_CALL_DONE), Str("call_4"), Num("5"), Absent),
     Event(Str(FUNCTION_CALL_DONE), Str("call_5"), Str("get_weather"), Str("not json")),
     Event(Str(FUNCTION_CALL_DONE), Str("call_6"), Str("get_weather"), Str("[]")),
     Event(Str(FUNCTION_CALL_DONE), Str("call_7"), Str("get_weather"),
           Str("{\"city\": null}")),
     Event(Str(FUNCTION_CALL_DONE), Str("call_8"), Str("get_weather"), Null),
     Event(Str(FUNCTION_CALL_DONE), Str("call_9"), Str("get_weather"),
           Str("{\"city\": \"PARIS\", \"unit\": \"fahrenheit\"}")),
     Event(Str(FUNCTION_CALL_DONE), Str("call_10"), Str("get_weather"),
           Str("{\"city\": \"Atlantis\"}")),
     Event(Str(FUNCTION_CALL_DONE), Str("call_11"), Str("get_weather"), Absent)}

PassThroughFrames ==
    {BytesFrame("pcm-2"),
     NotJson("not json"),
     JsonArray("[1]"),
     Event(Absent, Absent, Absent, Absent),
     Event(Str("response.audio.delta"), Absent, Absent, Absent),
     Event(Str(FUNCTION_CALL_DONE), Absent, Str("get_weather"), Str("{}")),
     Event(Str(FUNCTION_CALL_DONE), Str(""), Str("get_weather"), Str("{}")),
     Event(Str(FUNCTION_CALL_DONE), Str("call_12"), Absent, Str("{}")),
     Event(Str(FUNCTION_CALL_DONE), Str("call_13"), Str(""), Str("{}")),
     Event(Str(FUNCTION_CALL_DONE), Null, Null, Null)}

A2C_RecvTool(c, m) ==
    /\ Len(azure_recv[c]) < MaxToolFrames
    /\ A2C_Recv(c, m)

InitTool == InitFor(1)

NextTool ==
    \/ \E c \in Conns : Connect(c, "", "/")
    \/ \E c \in Conns : VoiceConnected(c)
    \/ \E c \in Conns, m \in ToolCalls \cup PassThroughFrames : A2C_RecvTool(c, m)
    \/ \E c \in Conns : A2C_ItemSent(c)
    \/ \E c \in Conns, ok \in BOOLEAN : A2C_RespSent(c, ok)
    \/ \E c \in Conns : A2C_Forwarded(c)
    \/ \E c \in Conns : A2C_End(c)
    \/ \E c \in Conns : ClientClose(c)
    \/ \E c \in Conns : AzureClose(c, FALSE)

SpecTool == InitTool /\ [][NextTool]_vars

\* SpecLifecycle: voice and text sessions side by side, from connection to
\* cleanup, with no frames from the clients or from Azure.
InitLifecycle == InitFor(LifeConns)

NextLifecycle ==
    \/ \E c \in Conns, p \in {"/", "/?mode=text"} :
          Accepting(c) /\ Connect(c, "Bearer alice", p)
    \/ \E c \in Conns : VoiceConnected(c)
    \/ \E c \in Conns, e \in ConnectErrors : VoiceConnectFailed(c, e)
    \/ \E c \in Conns : C2A_End(c)
    \/ \E c \in Conns : A2C_End(c)
    \/ \E c \in Conns : VoiceReturn(c)
    \/ \E c \in Conns, agent \in BOOLEAN : TextAgent(c, agent)
    \/ \E c \in Conns, ok \in BOOLEAN : TextSession(c, ok)
    \/ \E c \in Conns : TextEnd(c)
    \/ \E c \in Conns : ClientClose(c)
    \/ \E c \in Conns : AzureClose(c, FALSE)

SpecLifecycle == InitLifecycle /\ [][NextLifecycle]_vars

\* SpecText: one text session of a client without a bearer token, with every
\* kind of client frame and of return value of the chat call, and the reaper.
TextClientFrames ==
    {TextMessage(Str("text_message"), Str("hi"), Absent),
     TextMessage(Str("text.message"), Absent, Str("hola")),
     TextMessage(Str("text_message"), Str(""), Absent),
     TextMessage(Str("text_message"), Num("5"), Absent),
     TextMessage(Str("ping"), Absent, Absent),
     TextMessage(Absent, Str("hi"), Absent),
     NotJson("hello"),
     JsonArray("[1]"),
     BytesFrame("pcm-1")}

\* What call_azure_chat_api_with_agent returns: the agent's text, the
\* placeholder for an empty result, or the text of an exception.
ChatResponses ==
    {"Hello! How can I help?", "No response generated.", "Error: request timed out"}

InitText == InitFor(1)

NextText ==
    \/ \E c \in Conns : Connect(c, "", "/?mode=text")
    \/ \E c \in Conns, agent \in BOOLEAN : TextAgent(c, agent)
    \/ \E c \in Conns, ok \in BOOLEAN : TextSession(c, ok)
    \/ \E c \in Conns, m \in TextClientFrames : TextRecv(c, m)
    \/ \E c \in Conns, r \in ChatResponses : TextReply(c, r)
    \/ \E c \in Conns : TextEnd(c)
    \/ \E c \in Conns : ClientClose(c)
    \/ ReaperSweep
    \/ Tick(STALE_AGE + CLEANUP_INTERVAL, TextTicks)

SpecText == InitText /\ [][NextText]_vars

\* SpecSecret: voice connections under each form the configured endpoint
\* can take: with the https scheme the .env template shows, with http, with
\* wss, or with no scheme at all. validate_azure_config checks only that the
\* endpoint is not empty.
Endpoints ==
    {[scheme |-> sch, host |-> "contoso.openai.azure.com"] :
        sch \in {"https://", "http://", "wss://", ""}}

InitSecret == \E endpoint \in Endpoints : InitWith(SecretConns, endpoint)

NextSecret ==
    \/ \E c \in Conns : Accepting(c) /\ Connect(c, "Bearer alice", "/")
    \/ \E c \in Conns : VoiceConnected(c)
    \/ \E c \in Conns, e \in ConnectOutcomes : VoiceConnectFailed(c, e)
    \/ \E c \in Conns : C2A_End(c)
    \/ \E c \in Conns : A2C_End(c)
    \/ \E c \in Conns : VoiceReturn(c)
    \/ \E c \in Conns : ClientClose(c)
    \/ \E c \in Conns : AzureClose(c, FALSE)

SpecSecret == InitSecret /\ [][NextSecret]_vars

----------------------------------------------------------------------------
(* Claims about the relay *)

Frames(seq) == [i \in 1..Len(seq) |-> seq[i].frame]

IsPrefix(a, b) == Len(a) <= Len(b) /\ \A i \in 1..Len(a) : a[i] = b[i]

\* What the client loop has sent upstream.
ClientSent(c) == Frames(SelectSeq(up_out[c], LAMBDA e : e.by = "client"))

\* What the interceptor has sent upstream for the i-th frame from Azure.
Injected(c, i) == Frames(SelectSeq(up_out[c], LAMBDA e : e.by = "tool" /\ e.for = i))

\* The i-th frame from Azure is through the interceptor and the forward.
Finished(c, i) ==
    \/ i < Len(azure_recv[c])
    \/ i = Len(azure_recv[c]) /\ a2c[c] \in {"fwd", "recv", "done"}

IsCall(m) == IsFunctionCallDone(m) /\ Truthy(m.data.call_id) /\ Truthy(m.data.name)

PairFor(m) == <<ItemCreate(m.data.call_id, ToolResult(m).result), ResponseCreate>>

BothOpen(c) == pc[c] = "relay" /\ client_open[c] /\ AzureOpen(c)

SeattleWeather ==
    [city |-> "Seattle", temperature |-> 8, unit |-> "C", condition |-> "Rainy",
     humidity |-> 85, wind |-> 15]

\* C1: while both legs of a voice session are open, the client loop is
\* running and the upstream connection has been sent exactly the frames
\* received from the client, unmodified and in the same order.
C1_ClientToUpstream ==
    \A c \in Conns : BothOpen(c) =>
        /\ c2a[c] \in {"recv", "send"}
        /\ ClientSent(c) = client_recv[c]

\* C2: every finished frame of type response.function_call_arguments.done
\* that carries a call_id and a name has produced exactly the pair
\* (conversation.item.create with that call_id and the tool's result, then
\* response.create) upstream, and has been forwarded to the client.
C2_PairPerCall ==
    \A c \in Conns : \A i \in 1..Len(azure_recv[c]) :
        IsCall(azure_recv[c][i]) /\ Finished(c, i) =>
            /\ Injected(c, i) = PairFor(azure_recv[c][i])
            /\ Len(client_out[c]) >= i
            /\ client_out[c][i] = azure_recv[c][i]

\* C2, amended: the same for a call whose name is a string, while the
\* upstream connection is still open (for the pair) and the client connection
\* is still open (for the forward).
C2_PairPerCallWhileOpen ==
    \A c \in Conns : \A i \in 1..Len(azure_recv[c]) :
        LET m == azure_recv[c][i]
        IN IsCall(m) /\ m.data.name.t = "str" /\ Finished(c, i) =>
             /\ AzureOpen(c) => Injected(c, i) = PairFor(m)
             /\ client_open[c] => Len(client_out[c]) >= i /\ client_out[c][i] = m
             /\ Len(Injected(c, i)) <= 2

\* A get_weather call for Seattle, answered upstream with the weather of
\* Seattle and a response.create, and forwarded to the client.
C2_Witness ==
    \E c \in Conns : \E i \in 1..Len(azure_recv[c]) :
        /\ azure_recv[c][i] = GetWeatherCall
        /\ Finished(c, i)
        /\ BothOpen(c)
        /\ Injected(c, i) = <<ItemCreate(Str("call_1"), SeattleWeather), ResponseCreate>>
        /\ client_out[c][i] = GetWeatherCall

\* C3: after an interception has finished, either both injected frames of
\* the call were sent upstream or neither was.
C3_AllOrNothing ==
    \A c \in Conns : \A i \in 1..Len(azure_recv[c]) :
        Finished(c, i) => Len(Injected(c, i)) \in {0, 2}

\* C3, amended: a response.create is only ever sent after the item-create of
\* its call; an item-create is left alone after the interception only when
\* the upstream connection is no longer open, and the interceptor then
\* reported the call as not handled.
C3_NoResponseWithoutItem ==
    \A c \in Conns : \A i \in 1..Len(azure_recv[c]) :
        LET m == azure_recv[c][i]
            inj == Injected(c, i)
        IN /\ Len(inj) <= 2
           /\ Len(inj) >= 1 => IsCall(m) /\ inj[1] = PairFor(m)[1]
           /\ Len(inj) = 2 => inj[2] = ResponseCreate
           /\ Finished(c, i) /\ Len(inj) = 1 => ~AzureOpen(c) /\ i \notin handled[c]

\* The upstream connection closed between the two sends: the item-create of
\* a call is upstream alone and the call was forwarded as not handled.
C3_Witness ==
    \E c \in Conns : \E i \in 1..Len(azure_recv[c]) :
        /\ Finished(c, i)
        /\ Len(Injected(c, i)) = 1
        /\ i \notin handled[c]
        /\ Len(client_out[c]) >= i

\* C4: when a frame that the interceptor handled is forwarded to the client,
\* both injected frames are already upstream, in order; nothing is injected
\* for a frame after it has been forwarded.
C4_InjectBeforeForward ==
    [][\A c \in Conns :
          /\ \A i \in 1..Len(azure_recv'[c]) :
                (/\ Len(client_out[c]) < i
                 /\ Len(client_out'[c]) >= i
                 /\ i \in handled'[c])
                    => /\ i = Len(azure_recv[c])
                       /\ Injected(c, i) = PairFor(azure_recv[c][i])
          /\ \A i \in 1..Len(client_out[c]) :
                a2c[c] # "idle" =>
                    SelectSeq(up_out'[c], LAMBDA e : e.by = "tool" /\ e.for = i)
                        = SelectSeq(up_out[c], LAMBDA e : e.by = "tool" /\ e.for = i)]_vars

\* The second frame from Azure was a call; it was handled and is now on its
\* way to the client, behind the audio that preceded it.
C4_Witness ==
    \E c \in Conns :
        /\ handled[c] = {2}
        /\ a2c[c] = "fwd"
        /\ azure_recv[c] = <<BytesFrame("pcm-2"), GetWeatherCall>>
        /\ client_out[c] = azure_recv[c]
        /\ Len(Injected(c, 2)) = 2

\* C5: once the upstream loop runs, the client has been sent the frames
\* received from Azure, unmodified and in order, each once: all of them when
\* the loop waits for the next frame, and all but the one in hand otherwise;
\* a frame stays unforwarded only when the client connection is closed.
C5_UpstreamToClient ==
    \A c \in Conns : a2c[c] # "idle" =>
        /\ IsPrefix(client_out[c], azure_recv[c])
        /\ Len(azure_recv[c]) - Len(client_out[c]) <= 1
        /\ a2c[c] \in {"recv", "fwd"} => client_out[c] = azure_recv[c]
        /\ a2c[c] \in {"item", "resp"} => Len(client_out[c]) = Len(azure_recv[c]) - 1
        /\ a2c[c] = "done" /\ client_out[c] # azure_recv[c] => ~client_open[c]

\* Three frames from Azure, among them audio and a handled call, have all
\* reached the client in the order received.
C5_Witness ==
    \E c \in Conns :
        /\ Len(azure_recv[c]) = 3
        /\ client_out[c] = azure_recv[c]
        /\ handled[c] # {}
        /\ \E i \in 1..3 : azure_recv[c][i].kind = "bytes"
        /\ a2c[c] = "recv"

\* A step the server takes by itself: no frame and no close event from a peer.
ServerStep(c) ==
    \/ \E ok \in BOOLEAN : C2A_Sent(c, ok)
    \/ C2A_End(c)
    \/ azure_state[c] = "draining" /\ \E m \in AzureFrames : A2C_Recv(c, m)
    \/ A2C_ItemSent(c)
    \/ \E ok \in BOOLEAN : A2C_RespSent(c, ok)
    \/ A2C_Forwarded(c)
    \/ A2C_End(c)
    \/ VoiceReturn(c)

\* C6: once one loop of a voice session has ended, the session goes on to its
\* teardown by steps of the server alone, without a further frame or close
\* event from a peer.
C6_TeardownWithoutPeer ==
    \A c \in Conns :
        pc[c] = "relay" /\ (c2a[c] = "done" \/ a2c[c] = "done") => ENABLED ServerStep(c)

----------------------------------------------------------------------------
(* Claims about the router *)

\* Connection c is taken from accept to its first await in this step, with
\* Authorization header h.
ConnectsWith(c, h) == \E p \in Paths : Connect(c, h, p)

\* The admission check ran for c in this step and c went on as identity u.
ProceedsAs(c, u) ==
    /\ u # ""
    /\ user_id'[c] = u
    /\ pc'[c] \in {"deny_close", "voice", "text"}
    /\ pc'[c] \in {"voice", "text"} => Last(user_requests'[u]) = now

\* The identity was never seen before this step.
Fresh(u) ==
    /\ u \in {AnonNames[i] : i \in DOMAIN AnonNames}
    /\ user_requests[u] = << >>
    /\ user_connections[u] = {}
    /\ \A d \in Conns : user_id[d] # u

C12_CleanupAlways ==
    /\ [](\A c \in Conns : pc[c] = "done" =>
             /\ c \notin DOMAIN sessions
             /\ \A u \in Identities : c \notin user_connections[u]
             /\ ~client_open[c]
             /\ Len(closes[c]) \in {1, 2}
             /\ Last(closes[c]) = CloseCall(NORMAL_CLOSURE, NoReason)
             /\ Len(closes[c]) = 2 => closes[c][1].code = POLICY_VIOLATION)
    /\ [][\A c \in Conns :
            /\ ~client_open[c] => ~client_open'[c]
            /\ pc[c] = "done" => pc'[c] = "done" /\ closes'[c] = closes[c]]_vars

\* All connections have ended, among them one turned away at the cap, one
\* after a failed upstream connect and one after a relay whose loops both
\* ended.
C12_Witness ==
    /\ \A c \in Conns : pc[c] = "done"
    /\ DOMAIN sessions = {}
    /\ \E c \in Conns : Len(closes[c]) = 2 /\ closes[c][1].reason = ConcurrentReason
    /\ \E c \in Conns : Len(client_out[c]) = 1 /\ azure_state[c] = "closed"
    /\ \E c \in Conns : c2a[c] = "done" /\ a2c[c] = "done" /\ Len(closes[c]) = 1

\* C13: destroying a session that is absent changes nothing, destroying one
\* twice is the same as destroying it once, and the registry and the owners'
\* sets always agree; when the reaper and the router's final cleanup both
\* destroy a session, in either order, the first removes it from the registry
\* and from its owner's set and the second changes nothing.
C13_DestroyIdempotent ==
    /\ [](\A sid \in Conns :
             LET once == cleanup_session(Registry, sid)
             IN /\ sid \notin DOMAIN sessions => once = Registry
                /\ cleanup_session(once, sid) = once
                /\ sid \notin DOMAIN once.sessions
                /\ \A u \in Identities : sid \notin once.user_connections[u])
    /\ [](\A u \in Identities : \A sid \in user_connections[u] :
             sid \in DOMAIN sessions /\ sessions[sid].user_id = u)
    /\ [][\A c \in Conns :
            /\ (pc[c] \in {"voice", "text"} /\ pc'[c] = "done")
                  => /\ c \notin DOMAIN sessions'
                     /\ \A u \in Identities : c \notin user_connections'[u]
                     /\ c \notin DOMAIN sessions => UNCHANGED registry_vars
            /\ (pc[c] = "done" /\ c \notin DOMAIN sessions) => c \notin DOMAIN sessions']_vars

\* The reaper has destroyed the session of a connection whose handler is
\* still running: the router's cleanup of the same session is yet to come.
C13_Witness ==
    \E c \in Conns :
        /\ pc[c] = "voice"
        /\ session_id[c] = c
        /\ c \notin DOMAIN sessions
        /\ c \notin user_connections[user_id[c]]
        /\ \E d \in Conns : pc[d] = "done" /\ Len(closes[d]) = 1

\* C14: a reaper sweep removes every session whose age exceeds one hour,
\* whether or not its handler is still running, and leaves every other
\* session, one of exactly that age included, in the registry as it was.
C14_SweepRemovesStale ==
    [][ReaperSweep =>
          \A sid \in DOMAIN sessions :
              IF now - sessions[sid].created_at > 3600
              THEN /\ sid \notin DOMAIN sessions'
                   /\ sid \notin user_connections'[sessions[sid].user_id]
              ELSE /\ sid \in DOMAIN sessions'
                   /\ sessions'[sid] = sessions[sid]
                   /\ sid \in user_connections'[sessions[sid].user_id]]_vars

\* After a sweep: a session whose handler is still running is gone from the
\* registry, and a younger one, exactly one hour old, is still there.
C14_Witness ==
    \E c, d \in Conns :
        /\ pc[c] = "voice" /\ session_id[c] = c /\ c \notin DOMAIN sessions
        /\ pc[d] = "voice" /\ d \in DOMAIN sessions
        /\ c < d
        /\ now - sessions[d].created_at = STALE_AGE

\* The upstream connect of c fails in this step.
ConnectFails(c) ==
    pc[c] = "voice" /\ azure_state[c] = "none" /\ azure_state'[c] = "closed"

IsErrorFrame(f) ==
    /\ f.kind = "text"
    /\ f.data.t = "object"
    /\ f.data.type = Str("error")
    /\ f.data.error \in {<<e.prefix>> \o e.text : e \in ConnectErrors}
                         \cup {<<"Voice mode error: ", "KeyError">>}

\* C15: when the upstream connection cannot be established the handler
\* returns at once: no loop is started, the client is sent exactly one error
\* frame if its connection is open and nothing otherwise, the session is
\* destroyed, and the connect is never attempted again.
C15_ConnectFailure ==
    [][\A c \in Conns :
          /\ ConnectFails(c) =>
                /\ pc'[c] = "done"
                /\ c2a'[c] = "idle" /\ a2c'[c] = "idle"
                /\ up_out'[c] = << >>
                /\ IF client_open[c]
                   THEN Len(client_out'[c]) = 1 /\ IsErrorFrame(client_out'[c][1])
                   ELSE client_out'[c] = << >>
                /\ c \notin DOMAIN sessions'
                /\ \A u \in Identities : c \notin user_connections'[u]
          /\ (pc[c] = "done" /\ azure_state[c] = "closed") =>
                /\ pc'[c] = "done"
                /\ azure_state'[c] = "closed"
                /\ client_out'[c] = client_out[c]]_vars

\* The connect was refused with HTTP 401: the client has the error frame and
\* the handler has returned without a relay.
C15_Witness ==
    \E c \in Conns :
        /\ pc[c] = "done"
        /\ c2a[c] = "idle"
        /\ client_out[c] =
              <<ErrorFrame(<<"Failed to connect to Azure Realtime API: ",
                             "server rejected WebSocket connection: HTTP 401">>)>>
        /\ \E d \in Conns : pc[d] = "done" /\ c2a[d] = "idle"
                               /\ azure_state[d] = "closed" /\ client_out[d] = << >>

\* The handler of c returns in this step on a condition the server detected
\* while the client was connected: a rejection, a failed upstream connect, or
\* a relay that ends with the upstream connection closed by Azure.
EndsOnServerCondition(c) ==
    /\ pc[c] # "done"
    /\ pc'[c] = "done"
    /\ \/ pc[c] \in {"auth_close", "deny_close"}
       \/ ConnectFails(c) /\ client_open[c]
       \/ pc[c] = "relay" /\ azure_state[c] = "closed" /\ client_open[c]

\* What the client of c has been given: an error frame, or a close with a
\* reason.
Informed(c) ==
    \/ \E i \in 1..Len(client_out[c]) : IsErrorFrame(client_out[c][i])
    \/ closes[c] # << >> /\ closes[c][1].reason # NoReason

\* C16: whenever the server ends a session on a condition it detected
\* (admission denial, upstream connect failure, the upstream connection
\* closing or failing during a relay), the client has received an error
\* frame before the close or the close carries a reason.
C16_NoSilentDisconnect ==
    [][\A c \in Conns : EndsOnServerCondition(c) => Informed(c)']_vars

\* A loop of the relay of c is still running.
ClientLoopRuns(c) == c2a[c] \in {"recv", "send"}
UpstreamLoopRuns(c) == a2c[c] \in {"recv", "item", "resp", "fwd"}

\* C26: the end of one forwarding loop, by an error or a close, leaves the
\* other loop where it is and the relay waiting for it: the handler returns
\* only once both loops have ended, and then normally (no error frame is
\* sent and the close carries no reason), with the session destroyed and
\* both connections closed.
C26_LoopsIsolated ==
    /\ [](\A c \in Conns :
             /\ (ClientLoopRuns(c) \/ UpstreamLoopRuns(c)) =>
                    pc[c] = "relay" /\ session_id[c] = c
             /\ (pc[c] = "done" /\ c2a[c] # "idle") =>
                    /\ c2a[c] = "done" /\ a2c[c] = "done"
                    /\ c \notin DOMAIN sessions
                    /\ \A u \in Identities : c \notin user_connections[u]
                    /\ ~client_open[c]
                    /\ azure_state[c] = "closed"
                    /\ closes[c] = <<CloseCall(NORMAL_CLOSURE, NoReason)>>)
    /\ [][\A c \in Conns :
            /\ (ClientLoopRuns(c) /\ c2a'[c] = "done") =>
                  /\ a2c'[c] = a2c[c] /\ pc'[c] = "relay"
                  /\ client_out'[c] = client_out[c] /\ azure_recv'[c] = azure_recv[c]
            /\ (UpstreamLoopRuns(c) /\ a2c'[c] = "done") =>
                  /\ c2a'[c] = c2a[c] /\ pc'[c] = "relay"
                  /\ up_out'[c] = up_out[c] /\ client_recv'[c] = client_recv[c]
            /\ (pc[c] = "relay" /\ pc'[c] = "done") =>
                  /\ c2a[c] = "done" /\ a2c[c] = "done"
                  /\ client_out'[c] = client_out[c]]_vars

\* The client loop has ended on an error while both connections are open,
\* and the upstream loop is forwarding a frame to the client.
C26_Witness ==
    \E c \in Conns :
        /\ pc[c] = "relay"
        /\ c2a[c] = "done"
        /\ a2c[c] = "fwd"
        /\ client_open[c] /\ AzureOpen(c)
        /\ client_out[c] = azure_recv[c]
        /\ Len(client_out[c]) >= 1

----------------------------------------------------------------------------
(* Claims about the session lifecycle *)

\* C21: a session's upstream handle is None when the session is created and
\* is assigned at most once, in the step in which the upstream connection of
\* a voice session is established: a text session and a session whose connect
\* failed never have one. Once the router's cleanup for a connection has run,
\* its session id is in neither the registry nor its owner's set.
C21_HandleOnce ==
    /\ [](\A sid \in DOMAIN sessions :
             sessions[sid].azure_ws # None =>
                 /\ sessions[sid].mode = "voice"
                 /\ pc[sid] = "relay"
                 /\ azure_state[sid] \in {"open", "draining", "closed"})
    /\ [](\A c \in Conns : pc[c] = "done" =>
             /\ c \notin DOMAIN sessions
             /\ \A u \in Identities : c \notin user_connections[u])
    /\ [][\A c \in Conns :
            /\ (c \notin DOMAIN sessions /\ c \in DOMAIN sessions')
                  => sessions'[c].azure_ws = None
            /\ (/\ c \in DOMAIN sessions
                /\ c \in DOMAIN sessions'
                /\ sessions'[c].azure_ws # sessions[c].azure_ws)
                  => /\ sessions[c].azure_ws = None
                     /\ sessions[c].mode = "voice"
                     /\ pc[c] = "voice" /\ pc'[c] = "relay"
                     /\ azure_state[c] = "none" /\ azure_state'[c] = "open"
            /\ (pc[c] = "voice" /\ azure_state'[c] = "closed")
                  => c \notin DOMAIN sessions']_vars

\* A voice session holds its upstream handle while a text session, waiting
\* for its client, has none; a third connection has ended on a failed
\* connect and its session is gone.
C21_Witness ==
    \E c, d, e \in Conns :
        /\ pc[c] = "relay" /\ sessions[c].azure_ws = c
        /\ pc[d] = "text_recv" /\ d \in DOMAIN sessions /\ sessions[d].azure_ws = None
        /\ sessions[d].agent_session = d
        /\ pc[e] = "done" /\ azure_state[e] = "closed" /\ c2a[e] = "idle"
        /\ Len(client_out[e]) = 1

\* Connection c is taken from accept to its first await in this step, with
\* target p, and is admitted.
AdmittedAt(c, p) ==
    /\ \E h \in Headers : Connect(c, h, p)
    /\ pc'[c] \notin {"auth_close", "deny_close"}

\* C22: the session of an admitted connection has mode "text" exactly when
\* the mode parameter of its target is "text", and "voice" otherwise (no
\* query, no mode parameter, a blank one, "voice", or any other value); the
\* connection is dispatched to the handler of that mode. Every session has
\* mode voice or text and no connection is ever closed for an invalid mode.
C22_ModeOfTarget ==
    /\ [](\A sid \in DOMAIN sessions : sessions[sid].mode \in {"voice", "text"})
    /\ [](\A c \in Conns :
             /\ pc[c] # "mode_close"
             /\ \A i \in 1..Len(closes[c]) : closes[c][i].reason.fmt # "Invalid mode")
    /\ [][\A c \in Conns : \A p \in Paths : AdmittedAt(c, p) =>
            /\ c \in DOMAIN sessions'
            /\ sessions'[c].mode = "text" <=> p = "/?mode=text"
            /\ sessions'[c].mode = "voice" <=> p # "/?mode=text"
            /\ pc'[c] = sessions'[c].mode]_vars

\* A text session and a voice session, each about to enter its handler.
C22_Witness ==
    \E c, d \in Conns :
        /\ c \in DOMAIN sessions /\ sessions[c].mode = "text" /\ pc[c] = "text"
        /\ d \in DOMAIN sessions /\ sessions[d].mode = "voice" /\ pc[d] = "voice"

----------------------------------------------------------------------------
(* Claims about text mode *)

InTextLoop(c) == pc[c] \in {"text_recv", "text_call"}

Anonymous(u) == u \in {AnonNames[i] : i \in DOMAIN AnonNames}

\* A message of the chat: a JSON object of type text_message (or
\* text.message).
IsMessage(m) ==
    /\ m.kind = "text"
    /\ m.data.t = "object"
    /\ m.data.type \in {Str("text_message"), Str("text.message")}

NonEmptyString(j) == j.t = "str" /\ j.v # ""

\* A message that carries a text: a non-empty string as its content or,
\* without a content, as its text.
HasText(m) ==
    /\ IsMessage(m)
    /\ \/ NonEmptyString(m.data.content)
       \/ m.data.content \in {Absent, Null, Str("")} /\ NonEmptyString(m.data.text)

\* The text_response frames sent to the client, in order.
Responses(c) ==
    SelectSeq(client_out[c],
              LAMBDA f : f.data.t = "object" /\ f.data.type = Str("text_response"))

\* The text_response frames that the returned chat calls account for.
Answers(c) == [i \in 1..Len(chat_calls[c]) |-> TextResponse(chat_calls[c][i].response)]

IsNotJson(m) == m.kind = "text" /\ m.data.t = "invalid"

\* A text frame that is JSON of an unexpected shape: not an object, an object
\* of no known type, or a message whose content is not a text.
UnexpectedShape(m) ==
    /\ m.kind = "text"
    /\ \/ m.data.t = "array"
       \/ m.data.t = "object" /\ ~IsMessage(m)
       \/ IsMessage(m) /\ m.data.content.t = "num"

\* The handler of c reads the frame m in this step.
Reads(c, m) ==
    /\ pc[c] = "text_recv"
    /\ client_recv'[c] = Append(client_recv[c], m)

\* In this step the client of c is sent one frame {type: error, ...} and
\* nothing else, and the handler stays in its loop with the connection open
\* and the session as it was.
AnsweredWithError(c) ==
    /\ Len(client_out'[c]) = Len(client_out[c]) + 1
    /\ Last(client_out'[c]).data.type = Str("error")
    /\ pc'[c] = "text_recv"
    /\ client_open'[c]
    /\ UNCHANGED <<sessions, user_connections, closes>>

\* C24: a text frame that is not JSON, or is JSON of an unexpected shape, is
\* answered with an error frame and leaves the session running; messages
\* received after it are processed.
C24_MalformedAnswered ==
    /\ [][\A c \in Conns : \A m \in TextClientFrames :
            (Reads(c, m) /\ (IsNotJson(m) \/ UnexpectedShape(m)))
                => AnsweredWithError(c)]_vars
    /\ [](\A c \in Conns : pc[c] = "text_recv" =>
             Len(Responses(c)) = Len(SelectSeq(client_recv[c], HasText)))

\* C24, amended: the same for a frame that is not JSON ("Invalid message
\* format"), for JSON that is not an object and for a message whose content
\* is a number (the text of the exception); a JSON object of an unknown or
\* missing type is skipped instead: nothing is sent for it, and the session
\* is left running all the same.
C24_MalformedAnsweredOrSkipped ==
    /\ [][\A c \in Conns : \A m \in TextClientFrames :
            (Reads(c, m) /\ (IsNotJson(m) \/ UnexpectedShape(m))) =>
                IF m.data.t = "object" /\ ~IsMessage(m)
                THEN /\ client_out'[c] = client_out[c]
                     /\ pc'[c] = "text_recv"
                     /\ client_open'[c]
                     /\ UNCHANGED <<sessions, user_connections, closes>>
                ELSE /\ AnsweredWithError(c)
                     /\ IsNotJson(m) =>
                           Last(client_out'[c]) = ErrorFrame(<<"Invalid message format">>)]_vars
    /\ [](\A c \in Conns : pc[c] = "text_recv" =>
             Len(Responses(c)) = Len(SelectSeq(client_recv[c], HasText)))

\* A frame that is not JSON was answered with "Invalid message format", and
\* the message sent after it with a text_response.
C24_Witness ==
    \E c \in Conns :
        /\ pc[c] = "text_recv"
        /\ client_open[c]
        /\ client_recv[c] = <<NotJson("hello"),
                               TextMessage(Str("text_message"), Str("hi"), Absent)>>
        /\ client_out[c] = <<SessionCreated(c),
                              ErrorFrame(<<"Invalid message format">>),
                              TextResponse("Hello! How can I help?")>>

----------------------------------------------------------------------------
(* Claims about the upstream credential *)

\* The text of an error frame contains the API key.
Exposes(f) ==
    /\ f.kind = "text"
    /\ f.data.t = "object"
    /\ f.data.type = Str("error")
    /\ \E i \in 1..Len(f.data.error) : f.data.error[i] = AZURE_API_KEY

\* C25: no frame sent to a client contains the API key (or the upstream URL,
\* which ends with it), the error frame of a failed upstream connect
\* included.
C25_CredentialNotExposed ==
    \A c \in Conns : \A i \in 1..Len(client_out[c]) : ~Exposes(client_out[c][i])

----------------------------------------------------------------------------
(* Claims about the registry and the owners' sets *)

\* The sessions in the registry that belong to u.
Owned(S, u) == {sid \in DOMAIN S : S[sid].user_id = u}

\* C28: for every identity, its set of active sessions is the set of the
\* sessions in the registry that it owns. A step that creates a session
\* adds its id to the registry and to the owner's set, with message_count 0
\* and created_at now; a step that destroys sessions (the router's cleanup,
\* a reaper sweep) removes them from both; no step changes either otherwise,
\* and no session ever changes its owner.
C28_RegistryLedger ==
    /\ [](\A u \in Identities : user_connections[u] = Owned(sessions, u))
    /\ [][LET added == DOMAIN sessions' \ DOMAIN sessions
              removed == DOMAIN sessions \ DOMAIN sessions'
          IN /\ \A u \in Identities :
                   user_connections'[u] =
                       (user_connections[u] \ removed) \cup (Owned(sessions', u) \cap added)
             /\ \A sid \in DOMAIN sessions \cap DOMAIN sessions' :
                   sessions'[sid].user_id = sessions[sid].user_id
             /\ added # {} =>
                   \E c \in Conns :
                       /\ pc[c] = "new" /\ pc'[c] \in {"voice", "text"}
                       /\ added = {c} /\ removed = {}
                       /\ sessions'[c].user_id = user_id'[c]
                       /\ sessions'[c].message_count = 0
                       /\ sessions'[c].created_at = now
             /\ removed # {} =>
                   /\ added = {}
                   /\ \/ \E c \in Conns : pc[c] # "done" /\ pc'[c] = "done" /\ removed = {c}
                      \/ ReaperSweep /\ removed = StaleSessions]_vars

\* Two identities with sessions of their own, after a reaper sweep has
\* removed an older session whose handler is still running and the router
\* has cleaned up another connection.
C28_Witness ==
    /\ Cardinality(user_connections["alice"]) >= 1
    /\ \E u \in Identities \ {"alice"} : user_connections[u] # {}
    /\ \E c \in Conns : pc[c] = "voice" /\ c \notin DOMAIN sessions
    /\ \E c \in Conns : pc[c] = "done" /\ Len(closes[c]) = 1

\* The admitted connections of u whose handler has not returned.
Running(u) ==
    {c \in Conns : user_id[c] = u /\ session_id[c] # None /\ pc[c] # "done"}

\* C29: no identity ever has more than MAX_CONNECTIONS_PER_USER admitted
\* connections whose handler is still running.
C29_RunningWithinCap ==
    \A u \in Identities : Cardinality(Running(u)) <= MAX_CONNECTIONS_PER_USER

\* The client loop of c updates its registry entry in this step: the send of
\* a client text frame has returned and message_count is incremented.
AccessesEntry(c) ==
    /\ C2A_Sent(c, TRUE)
    /\ Last(client_recv[c]).kind = "text"

\* C30: whenever a relay loop accesses its session's registry entry the
\* session is in the registry, also after a reaper sweep: the access does
\* not fail and the loop goes on to the next frame.
C30_EntryPresentOnAccess ==
    [][\A c \in Conns : AccessesEntry(c) =>
          /\ session_id[c] \in DOMAIN sessions
          /\ c2a'[c] = "recv"]_vars

----------------------------------------------------------------------------
(* Claims about the tool executor and the interceptor *)

\* The calls received by c: frames of the trigger type with call_id and name.
CallsOf(c) == {i \in 1..Len(azure_recv[c]) : IsCall(azure_recv[c][i])}

Registered(name) == name = Str("get_weather")

UnknownFunction(name) == [error |-> <<"Unknown function: ", name.v>>]

PassThroughKind(m) ==
    \/ m.kind = "bytes"
    \/ m.data.t \in {"invalid", "array"}
    \/ /\ m.data.t = "object"
       /\ \/ m.data.type # Str(FUNCTION_CALL_DONE)
          \/ m.data.call_id \in {Absent, Null, Str("")}
          \/ m.data.name \in {Absent, Null, Str("")}

\* C18: for a frame of a pass-through kind the interceptor sends nothing
\* upstream and reports nothing handled, the loop is not ended by it, and the
\* frame is forwarded to the client (when the client connection is open).
C18_PassThrough ==
    \A c \in Conns : \A i \in 1..Len(azure_recv[c]) :
        LET m == azure_recv[c][i]
        IN PassThroughKind(m) =>
             /\ ~IsCall(m)
             /\ Injected(c, i) = << >>
             /\ i \notin handled[c]
             /\ i = Len(azure_recv[c]) => a2c[c] \in {"fwd", "recv", "done"}
             /\ client_open[c] => Len(client_out[c]) >= i /\ client_out[c][i] = m
             /\ Len(client_out[c]) < i => a2c[c] = "done" /\ ~client_open[c]

\* A frame that is not JSON and a function call with an empty call_id have
\* both reached the client; nothing was sent upstream.
C18_Witness ==
    \E c \in Conns :
        /\ azure_recv[c] = <<NotJson("not json"),
                              Event(Str(FUNCTION_CALL_DONE), Str(""), Str("get_weather"),
                                    Str("{}"))>>
        /\ client_out[c] = azure_recv[c]
        /\ up_out[c] = << >>
        /\ a2c[c] = "recv"

\* The tool executor returned an error payload for the call m.
ToolFailed(m) ==
    /\ IsCall(m)
    /\ ~ToolResult(m).raised
    /\ "error" \in DOMAIN ToolResult(m).result

\* C19: when the tool executor yields an error payload for a call (unknown
\* tool, unparsable or ill-shaped arguments), the payload is sent upstream as
\* the call's output, followed by response.create, the call is forwarded to
\* the client, and the loop goes on relaying: it ends only when a connection
\* is closed.
C19_ToolFailureIsNotFault ==
    \A c \in Conns :
        /\ \A i \in 1..Len(azure_recv[c]) :
              LET m == azure_recv[c][i]
              IN ToolFailed(m) /\ Finished(c, i) =>
                   /\ AzureOpen(c) =>
                         Injected(c, i) = <<ItemCreate(m.data.call_id, ToolResult(m).result),
                                            ResponseCreate>>
                   /\ client_open[c] => Len(client_out[c]) >= i /\ client_out[c][i] = m
        /\ (\E i \in 1..Len(azure_recv[c]) : ToolFailed(azure_recv[c][i])) =>
              /\ a2c[c] = "done" => ~client_open[c] \/ azure_state[c] = "closed"
              /\ a2c[c] \in {"recv", "fwd"} => client_out[c] = azure_recv[c]

\* A call of get_weather with unparsable arguments was answered upstream
\* with the error payload and forwarded; the audio frame received after it
\* has reached the client too, and the loop waits for the next frame.
C19_Witness ==
    \E c \in Conns :
        /\ Len(azure_recv[c]) = 2
        /\ azure_recv[c][1] = Event(Str(FUNCTION_CALL_DONE), Str("call_5"),
                                    Str("get_weather"), Str("not json"))
        /\ azure_recv[c][2] = BytesFrame("pcm-2")
        /\ client_out[c] = azure_recv[c]
        /\ Frames(up_out[c]) =
              <<ItemCreate(Str("call_5"),
                           [error |-> <<"Failed to get weather: ", "JSONDecodeError">>]),
                ResponseCreate>>
        /\ a2c[c] = "recv"
        /\ BothOpen(c)

----------------------------------------------------------------------------
(* Claims about the order of the frames sent upstream *)

\* The positions in up_out of the frames injected for the i-th frame from
\* Azure.
InjectedAt(c, i) ==
    {j \in 1..Len(up_out[c]) : up_out[c][j].by = "tool" /\ up_out[c][j].for = i}

\* C31: on the upstream connection, no frame from the client lies between the
\* item-create and the response-create injected for one call.
C31_PairContiguous ==
    \A c \in Conns : \A i \in 1..Len(azure_recv[c]) :
        \A j, l \in InjectedAt(c, i) :
            \A k \in 1..Len(up_out[c]) : (j < k /\ k < l) => up_out[c][k].by # "client"

\* C31, amended: the item-create of a call is sent before its
\* response-create, and the frames injected for different calls do not
\* overlap: what lies between the two frames of one call are frames of the
\* client loop only, which that loop sends in the order received whatever
\* the interceptor is doing.
C31_PairOrdered ==
    \A c \in Conns :
        /\ \A i \in 1..Len(azure_recv[c]) :
              /\ IF IsCall(azure_recv[c][i])
                    THEN IsPrefix(Injected(c, i), PairFor(azure_recv[c][i]))
                    ELSE Injected(c, i) = <<>>
              /\ \A j, l \in InjectedAt(c, i) :
                    \A k \in 1..Len(up_out[c]) :
                        (j < k /\ k < l) => up_out[c][k].by = "client"
        /\ \A j, k \in 1..Len(up_out[c]) :
              (j < k /\ up_out[c][j].by = "tool" /\ up_out[c][k].by = "tool")
                  => up_out[c][j].for <= up_out[c][k].for
        /\ IsPrefix(ClientSent(c), client_recv[c])

\* A frame of the client went upstream between the item-create and the
\* response-create of a call.
C31_Witness ==
    \E c \in Conns :
        /\ Len(up_out[c]) = 3
        /\ up_out[c][1].by = "tool" /\ up_out[c][1].frame = PairFor(GetWeatherCall)[1]
        /\ up_out[c][2].by = "client"
        /\ up_out[c][3].by = "tool" /\ up_out[c][3].frame = ResponseCreate
        /\ up_out[c][1].for = up_out[c][3].for

----------------------------------------------------------------------------
(* Claims about the isolation of sessions *)

\* The frames of a sequence.
Among(seq) == {seq[i] : i \in DOMAIN seq}

\* The item-create frames due to the calls Azure sent to session c.
ItemsFor(c) ==
    {PairFor(azure_recv[c][i])[1] :
        i \in {k \in DOMAIN azure_recv[c] : IsCall(azure_recv[c][k])}}

\* What this step did on the connections of session c.
Relayed(c) ==
    \/ up_out'[c] # up_out[c]
    \/ client_out'[c] # client_out[c]

Counted(c) ==
    /\ c \in DOMAIN sessions
    /\ c \in DOMAIN sessions'
    /\ sessions'[c].message_count # sessions[c].message_count

\* C35: sessions are isolated. Upstream, a session carries only frames that
\* its own client sent, in their order, and the frames injected for the calls
\* of its own upstream; its client receives only frames of its own upstream;
\* nothing of one session is found on the connections of another. A step
\* sends on the connections of one session only, and the message_count of a
\* session changes only when the send of a text frame of its own client
\* returns.
C35_SessionsIsolated ==
    /\ [](\A c \in Conns :
             /\ IsPrefix(ClientSent(c), client_recv[c])
             /\ \A k \in DOMAIN up_out[c] :
                   up_out[c][k].by = "tool" =>
                       /\ up_out[c][k].for \in DOMAIN azure_recv[c]
                       /\ IsCall(azure_recv[c][up_out[c][k].for])
                       /\ IsPrefix(Injected(c, up_out[c][k].for),
                                   PairFor(azure_recv[c][up_out[c][k].for]))
             /\ Among(client_out[c]) \subseteq Among(azure_recv[c])
             /\ \A d \in Conns \ {c} :
                   /\ Among(Frames(up_out[d])) \cap Among(client_recv[c]) = {}
                   /\ Among(Frames(up_out[d])) \cap ItemsFor(c) = {}
                   /\ Among(client_out[d]) \cap Among(azure_recv[c]) = {})
    /\ [][/\ \A c, d \in Conns : (Relayed(c) /\ Relayed(d)) => c = d
          /\ \A c \in Conns : Counted(c) =>
                /\ c2a[c] = "send" /\ c2a'[c] = "recv"
                /\ Last(client_recv[c]).kind = "text"
                /\ sessions'[c].message_count = sessions[c].message_count + 1
                /\ \A d \in Conns \ {c} : ~Counted(d)]_vars

\* Two sessions run side by side: each has relayed a text frame of its own
\* client and counted it, and has answered a call of its own upstream with
\* the weather of the city asked there.
C35_Witness ==
    /\ \A c \in {1, 2} :
          /\ pc[c] = "relay"
          /\ c \in DOMAIN sessions
          /\ sessions[c].message_count = 1
          /\ Len(ClientSent(c)) = 1
          /\ ClientSent(c)[1].kind = "text"
          /\ Len(azure_recv[c]) = 1
          /\ IsCall(azure_recv[c][1])
          /\ Injected(c, 1) = PairFor(azure_recv[c][1])
          /\ client_out[c] = azure_recv[c]
    /\ Frames(up_out[1]) # Frames(up_out[2])

----------------------------------------------------------------------------
(* Claims about accounting *)

\* The text frames among the first n frames received from the client.
TextFrames(c, n) == Cardinality({i \in 1..n : client_recv[c][i].kind = "text"})

\* C20: a session's message_count starts at 0 and never decreases; it changes
\* only when the send of a client text frame returns, by one; whenever the
\* client loop waits for the next frame it equals the number of text frames
\* received from the client, all of them sent upstream, and otherwise it
\* lacks at most the frame in hand. Binary frames and frames from Azure leave
\* it as it is.
C20_MessageCount ==
    /\ [](\A c \in Conns : c \in DOMAIN sessions =>
             LET n == Len(client_recv[c])
                 count == sessions[c].message_count
             IN /\ c2a[c] = "idle" => count = 0
                /\ c2a[c] = "recv" => count = TextFrames(c, n) /\ ClientSent(c) = client_recv[c]
                /\ c2a[c] = "send" => count = TextFrames(c, n - 1)
                /\ c2a[c] = "done" => count \in {TextFrames(c, n - 1), TextFrames(c, n)})
    /\ [][\A c \in Conns : (c \in DOMAIN sessions /\ c \in DOMAIN sessions') =>
            LET count == sessions[c].message_count
            IN \/ sessions'[c].message_count = count
               \/ /\ sessions'[c].message_count = count + 1
                  /\ c2a[c] = "send" /\ c2a'[c] = "recv"
                  /\ Last(client_recv[c]).kind = "text"
                  /\ Last(ClientSent(c)) = Last(client_recv[c])
                  /\ azure_recv'[c] = azure_recv[c]]_vars
    /\ [][\A c \in Conns : (c \notin DOMAIN sessions /\ c \in DOMAIN sessions') =>
            sessions'[c].message_count = 0]_vars

\* A text frame and an audio frame from the client have been sent upstream
\* and a frame from Azure has reached the client: message_count is 1.
C20_Witness ==
    \E c \in Conns :
        /\ c \in DOMAIN sessions
        /\ sessions[c].message_count = 1
        /\ Len(client_recv[c]) = 2
        /\ client_recv[c][1].kind = "text"
        /\ client_recv[c][2].kind = "bytes"
        /\ ClientSent(c) = client_recv[c]
        /\ c2a[c] = "recv"
        /\ Len(client_out[c]) = 1

----------------------------------------------------------------------------
(* Claims about admission *)

\* The timestamps of u that lie within the trailing window.
WindowCount(u) ==
    Cardinality({i \in DOMAIN user_requests[u] :
                    now - user_requests[u][i] < RATE_LIMIT_WINDOW})

\* Connection c passes its admission check in this step, as user u.
Checked(c) == pc[c] = "new" /\ pc'[c] # "new" /\ user_id'[c] # ""

Admitted(c) ==
    /\ pc'[c] \in {"voice", "text"}
    /\ session_id'[c] \in DOMAIN sessions'
    /\ session_id'[c] \notin DOMAIN sessions
    /\ closes'[c] = << >>

DeniedWith(c, reason) ==
    /\ pc'[c] = "deny_close"
    /\ closes'[c] = <<[code |-> 1008, reason |-> reason]>>
    /\ session_id'[c] = None

\* The timestamp ts is stale at the time of this step.
Stale(ts) == now - ts >= RATE_LIMIT_WINDOW

\* The number of requests of the window w that count at time t.
Budget(w, t) == Cardinality({i \in DOMAIN w : t - w[i] < RATE_LIMIT_WINDOW})

\* The timestamps recorded in the window w.
Stamps(w) == {w[i] : i \in DOMAIN w}

\* The number of times ts is recorded in the window w.
Recorded(w, ts) == Cardinality({i \in DOMAIN w : w[i] = ts})

\* C32: a denied admission check records nothing: no timestamp is added to
\* any window (the window of the identity checked may only lose timestamps),
\* the count of requests within the window stays what it was, no session is
\* created and no identity's set of active sessions changes. An admitted
\* check adds exactly one timestamp, the time of the check, to the window of
\* its identity alone, and nothing but an admitted check adds a timestamp.
C32_DeniedRecordsNothing ==
    [][/\ \A c \in Conns : (Checked(c) /\ pc'[c] = "deny_close") =>
             LET u == user_id'[c]
             IN /\ \A ts \in Stamps(user_requests'[u]) :
                      Recorded(user_requests'[u], ts) <= Recorded(user_requests[u], ts)
                /\ Budget(user_requests'[u], now) = Budget(user_requests[u], now)
                /\ \A v \in Identities \ {u} : user_requests'[v] = user_requests[v]
                /\ sessions' = sessions
                /\ user_connections' = user_connections
       /\ \A c \in Conns : (Checked(c) /\ Admitted(c)) =>
             LET u == user_id'[c]
             IN /\ Budget(user_requests'[u], now) = Budget(user_requests[u], now) + 1
                /\ Recorded(user_requests'[u], now) = Recorded(user_requests[u], now) + 1
                /\ \A ts \in Stamps(user_requests'[u]) \ {now} :
                      Recorded(user_requests'[u], ts) <= Recorded(user_requests[u], ts)
                /\ \A v \in Identities \ {u} : user_requests'[v] = user_requests[v]
       /\ \A u \in Identities :
             (\E ts \in Stamps(user_requests'[u]) : Recorded(user_requests'[u], ts) > Recorded(user_requests[u], ts))
                 => \E c \in Conns : Checked(c) /\ Admitted(c) /\ user_id'[c] = u
      ]_vars

\* One connection of alice was denied by the concurrency cap and another by
\* the rate limit; both wait for their close, and her window holds exactly
\* the sixty timestamps of her admitted checks.
C32_Witness ==
    \E c, d \in Conns :
        /\ pc[c] = "deny_close" /\ closes[c] = <<DenyClose(ConcurrentReason)>>
        /\ pc[d] = "deny_close" /\ closes[d] = <<DenyClose(RateReason)>>
        /\ user_id[c] = "alice" /\ user_id[d] = "alice"
        /\ Len(user_requests["alice"]) = MAX_REQUESTS_PER_MINUTE

\* The headers that carry no bearer token.
NoToken == {h \in Headers : ~StartsWithBearer(h)}

\* C33: a connection that presents no bearer token is never denied: the
\* anonymous identity generated for it has no active session and no recorded
\* timestamp when it is checked, and the check admits it, however many
\* connections without a token are open.
C33_AnonymousAdmitted ==
    [][\A c \in Conns :
          (\E h \in NoToken, p \in Paths : Connect(c, h, p)) =>
              /\ Anonymous(user_id'[c])
              /\ user_connections[user_id'[c]] = {}
              /\ user_requests[user_id'[c]] = << >>
              /\ Admitted(c)
              /\ user_connections'[user_id'[c]] = {session_id'[c]}]_vars

\* More connections without a token than the concurrency cap allows to one
\* identity are running at once, each under its own identity.
C33_Witness ==
    LET open == {c \in Conns : pc[c] = "voice" /\ Anonymous(user_id[c])}
    IN /\ Cardinality(open) > MAX_CONNECTIONS_PER_USER
       /\ \A c, d \in open : c # d => user_id[c] # user_id[d]
       /\ \A c \in open : user_connections[user_id[c]] = {session_id[c]}

\* C34: admission decisions are independent across identities. The result
\* and reason of every check are determined by the identity's own active
\* sessions, its own window and the time, and the active sessions and the
\* window of an identity change only in a check for that identity or in the
\* destruction of one of its own sessions: so two runs that agree on the
\* history of an identity agree on the result of each of its checks,
\* whatever other identities do.
C34_IdentityIndependent ==
    [][/\ \A c \in Conns : Checked(c) =>
             LET u == user_id'[c]
             IN IF Cardinality(user_connections[u]) >= 3
                THEN DeniedWith(c, [fmt |-> "Maximum %d concurrent connections exceeded",
                                    n |-> 3])
                ELSE IF Budget(user_requests[u], now) >= 60
                THEN DeniedWith(c, [fmt |-> "Rate limit exceeded: %d requests per minute",
                                    n |-> 60])
                ELSE Admitted(c) /\ user_connections'[u] = user_connections[u] \cup {session_id'[c]}
       /\ \A u \in Identities :
             (user_connections'[u] # user_connections[u] \/ user_requests'[u] # user_requests[u])
                 => \/ \E c \in Conns : Checked(c) /\ user_id'[c] = u
                    \/ \E sid \in DOMAIN sessions \ DOMAIN sessions' :
                           sessions[sid].user_id = u
      ]_vars

\* While alice has as many running sessions as the cap allows, a connection
\* of another identity, checked after them, is running too.
C34_Witness ==
    \E c \in Conns :
        /\ pc[c] = "voice"
        /\ user_id[c] # "alice"
        /\ Cardinality(user_connections["alice"]) = MAX_CONNECTIONS_PER_USER
        /\ \A d \in user_connections["alice"] : d < c /\ pc[d] = "voice"

\* C27: after every admission check, whatever its outcome, the window of the
\* identity checked holds no stale timestamp.
C27_PruneOnEveryCheck ==
    [][\A c \in Conns : Checked(c) =>
          \A i \in DOMAIN user_requests'[user_id'[c]] :
              ~Stale(user_requests'[user_id'[c]][i])]_vars

\* C27, amended: a check that is not denied by the concurrency cap prunes:
\* it leaves exactly the timestamps that are not stale, in their order,
\* followed by the time of the check if it admits. A check denied by the
\* concurrency cap leaves the window as it was, stale timestamps included.
C27_PruneBelowCap ==
    [][\A c \in Conns : Checked(c) =>
          LET u == user_id'[c]
              fresh == SelectSeq(user_requests[u], LAMBDA ts : ~Stale(ts))
          IN IF Cardinality(user_connections[u]) >= MAX_CONNECTIONS_PER_USER
             THEN /\ user_requests'[u] = user_requests[u]
                  /\ pc'[c] = "deny_close"
             ELSE /\ user_requests'[u] =
                        IF pc'[c] = "deny_close" THEN fresh ELSE Append(fresh, now)
                  /\ \A i \in DOMAIN user_requests'[u] : ~Stale(user_requests'[u][i])]_vars

\* A connection denied at the cap a minute after the three admissions of
\* its identity: their timestamps, all stale, are still in the window.
C27_Witness ==
    \E c \in Conns :
        /\ pc[c] = "deny_close"
        /\ closes[c][1].reason = ConcurrentReason
        /\ Len(user_requests[user_id[c]]) = MAX_CONNECTIONS_PER_USER
        /\ \A i \in DOMAIN user_requests[user_id[c]] : Stale(user_requests[user_id[c]][i])

\* C7: an admission check for an identity with exactly MAX_CONNECTIONS_PER_USER
\* registered sessions is denied with the concurrent-connections reason; a
\* check for an identity with fewer sessions and fewer than
\* MAX_REQUESTS_PER_MINUTE timestamps in the window is admitted.
C7_AdmissionBoundary ==
    [][\A c \in Conns : Checked(c) =>
          LET u == user_id'[c]
          IN /\ Cardinality(user_connections[u]) = MAX_CONNECTIONS_PER_USER
                  => DeniedWith(c, [fmt |-> "Maximum %d concurrent connections exceeded",
                                    n |-> 3])
             /\ (/\ Cardinality(user_connections[u]) < MAX_CONNECTIONS_PER_USER
                 /\ WindowCount(u) < MAX_REQUESTS_PER_MINUTE)
                  => Admitted(c)]_vars

\* A fourth connection of a user with three running sessions waits for its
\* policy-violation close.
C7_Witness ==
    \E c \in Conns :
        /\ pc[c] = "deny_close"
        /\ Cardinality(user_connections[user_id[c]]) = MAX_CONNECTIONS_PER_USER
        /\ Cardinality({d \in Conns : pc[d] = "voice" /\ user_id[d] = user_id[c]})
               = MAX_CONNECTIONS_PER_USER

\* C8: the check and the registration of the session it admits are one step
\* (every admitted check registers its session before any other check runs),
\* and no identity ever has more than MAX_CONNECTIONS_PER_USER registered
\* sessions.
C8_Linearized ==
    /\ [](\A u \in DOMAIN user_connections :
             Cardinality(user_connections[u]) <= MAX_CONNECTIONS_PER_USER)
    /\ [][\A u \in DOMAIN user_requests :
             Len(user_requests'[u]) > Len(user_requests[u])
                => \E sid \in user_connections'[u] : sid \notin user_connections[u]]_vars

\* An identity at its cap, with an earlier attempt of it already turned away
\* and closed.
C8_Witness ==
    /\ Cardinality(user_connections["alice"]) = MAX_CONNECTIONS_PER_USER
    /\ \E c \in Conns : pc[c] = "done" /\ Len(closes[c]) = 2
                          /\ closes[c][1].reason = ConcurrentReason

\* C9: under the concurrency cap, a check is denied with the rate-limit reason
\* when MAX_REQUESTS_PER_MINUTE timestamps lie within the trailing
\* RATE_LIMIT_WINDOW, and is admitted when fewer do, in particular once
\* RATE_LIMIT_WINDOW or more has elapsed since all of them.
C9_RateWindow ==
    [][\A c \in Conns : Checked(c) =>
          LET u == user_id'[c]
          IN Cardinality(user_connections[u]) < MAX_CONNECTIONS_PER_USER =>
               /\ WindowCount(u) >= 60
                    => /\ DeniedWith(c, [fmt |-> "Rate limit exceeded: %d requests per minute",
                                         n |-> 60])
                       /\ Len(user_requests'[u]) = WindowCount(u)
               /\ WindowCount(u) < 60
                    => /\ Admitted(c)
                       /\ Len(user_requests'[u]) = WindowCount(u) + 1
               /\ (\A i \in DOMAIN user_requests[u] :
                       now - user_requests[u][i] >= RATE_LIMIT_WINDOW)
                    => Admitted(c) /\ user_requests'[u] = <<now>>]_vars

\* The 61st attempt within the window, whose 60 timestamps were taken at two
\* different times, waits for its policy-violation close.
C9_Witness ==
    \E c \in Conns :
        /\ pc[c] = "deny_close"
        /\ closes[c][1].reason = RateReason
        /\ Len(user_requests[user_id[c]]) = MAX_REQUESTS_PER_MINUTE
        /\ Head(user_requests[user_id[c]]) < now
        /\ user_requests[user_id[c]][MAX_REQUESTS_PER_MINUTE] = now

\* C10: a denied check closes the connection with 1008 and the reason of the
\* denial, creates no session, and the connection never reaches a handler.
C10_DenialClose ==
    /\ [][\A c \in Conns : Checked(c) =>
            LET u == user_id'[c]
                capped == Cardinality(user_connections[u]) >= MAX_CONNECTIONS_PER_USER
                full == WindowCount(u) >= MAX_REQUESTS_PER_MINUTE
            IN (capped \/ full) =>
                 /\ closes'[c] = <<[code |-> 1008,
                                    reason |-> IF capped THEN ConcurrentReason
                                               ELSE RateReason]>>
                 /\ sessions' = sessions
                 /\ user_connections' = user_connections
                 /\ session_id'[c] = None
                 /\ pc'[c] \notin {"voice", "text"}]_vars
    /\ [][\A c \in Conns : pc[c] = "deny_close" =>
            /\ pc'[c] \in {"deny_close", "done"}
            /\ session_id'[c] = None
            /\ c \notin DOMAIN sessions']_vars

\* A denied connection has returned through the finally block; the sessions
\* of its user are still the three that were running.
C10_Witness ==
    \E c \in Conns :
        /\ pc[c] = "done"
        /\ Len(closes[c]) = 2
        /\ closes[c][1] = [code |-> 1008, reason |-> ConcurrentReason]
        /\ Cardinality(DOMAIN sessions) = MAX_CONNECTIONS_PER_USER
        /\ c \notin DOMAIN sessions

====
